---- MODULE Spec2Model ----
(***************************************************************************)
(* iron-term: the orchestration core of electron/main.ts and the renderer  *)
(* callbacks that feed it, and scripts/window_list.swift.  Each subsystem  *)
(* has its own specification over the module's variables:                  *)
(*   SpecCards  the persisted Card List and the capture pipeline           *)
(*   SpecTmux   the session watchdog (pollTmux)                            *)
(*   SpecTarget the session watchdog with retargeting (tmux-set-target)    *)
(*   SpecFair   the session watchdog under a fair timer                    *)
(*   SpecAlert  the watchdog's events and the renderer's alert panel       *)
(*   SpecAsr    the transcription session (startAsrSession/stopAsrSession) *)
(*   SpecSentences  the transcription session with interim and final texts *)
(*   SpecVoice  the renderer's transcript merge (handleAsrResult)          *)
(*   SpecWin    the window directory's display match                       *)
(*   SpecLogs   the on-demand log fetch (fetchTmuxLogs)                    *)
(*   SpecRect   the arguments of a rectangle capture (captureWithRect)     *)
(*   SpecIsolation  a capture, a watchdog cycle and transcription together *)
(* Node runs every callback to completion; a step of the model is one      *)
(* callback or one continuation between two awaits.                        *)
(***************************************************************************)
EXTENDS Integers, Sequences, FiniteSets, TLC

\* ------------------------------------------------------------- bounds
\* IPC requests issued to the card handlers in one behaviour.
MaxReq == 2
\* Watchdog cycles started in one behaviour (initial call and timer ticks).
MaxCycles == 3
\* Lines printed by one capture-pane command.
MaxLines == 2
\* Characters of one transcript fragment.
MaxFragLen == 2
\* asr-result events handled by the renderer between two resets of the panel.
MaxFed == 2
\* asr-start requests in one behaviour.
MaxStarts == 2
\* Audio frames submitted by the renderer in one behaviour.
MaxFrames == 1
\* Messages received from the provider in one behaviour.
MaxMsgs == 1
\* Largest coordinate and largest extent of a display frame or a window.
MaxPos == 2

\* ---------------------------------------------------- program constants
\* [card, ...cards].slice(0, 20)
CardCap == 20
\* ['capture-pane', '-pt', target, '-S', '-120'] and .slice(-120)
TmuxScrollback == 120
\* fetchTmuxLogs(lines = 200)
DefaultLogLines == 200

VARIABLES
    \* --- capture pipeline
    cardsJson,   \* cards.json: the persisted Card List, a sequence of card ids
    uiCards,     \* the renderer's `cards` state
    req,         \* the IPC invocations of the card handlers, one record per slot
    replies,     \* results of completed invocations on their way to the renderer
    uuids,       \* number of crypto.randomUUID() values drawn so far
    \* --- session watchdog
    tmuxSession,   \* tmuxConfig.session, from the environment
    tmuxTarget,    \* session, window and pane to capture, "" where not given
    lastTmuxAlert, \* "" stands for null
    poll,          \* the pollTmux invocations, one record per cycle
    cycles,        \* what each finished cycle did, in order of completion
    tmuxOut,       \* the events sent to the renderer by the latest callback
    logs,          \* the tmux-logs invocation: position, line count, result
    \* --- transcription session
    asrSocket,     \* index into socks, 0 stands for null
    asrTaskId,     \* 0 stands for null
    asrLastText,
    asrReady,
    asrAudioQueue,
    socks,         \* every WebSocket created so far: readyState and frames sent on it
    asrEnv,        \* credentials, pending token requests, counters of the inputs
    asrOp,         \* the callback that ran last, with the task id it found
    asrOut,        \* the events sent to the renderer by the latest callback
    \* --- renderer: voice panel
    voiceFinal,    \* the accumulated transcript
    voiceText,
    voicePreview,
    lastFinalRef,
    fed,           \* the asr-result events handled since the panel was reset
    \* --- window directory (window_list.swift)
    screens,       \* NSScreen.screens: the frames of the displays, in list order
    windowInfo,    \* the entries of CGWindowListCopyWindowInfo still to be mapped
    windows,       \* the window records produced so far
    \* --- rectangle capture (captureWithRect)
    rectCapture,   \* the payload of the latest rectangle capture and its screencapture arguments
    \* --- renderer: alert panel
    alertUi,       \* alertVisible, alertMessage, and the tmux events on their way to the handlers
    \* --- environment
    tmuxUp         \* the multiplexer answers: list-sessions and capture-pane succeed

cardVars == <<cardsJson, uiCards, req, replies, uuids>>

tmuxVars == <<tmuxSession, tmuxTarget, lastTmuxAlert, poll, cycles, tmuxOut>>

asrVars == <<asrSocket, asrTaskId, asrLastText, asrReady, asrAudioQueue, socks,
             asrEnv, asrOp, asrOut>>

voiceVars == <<voiceFinal, voiceText, voicePreview, lastFinalRef, fed>>

winVars == <<screens, windowInfo, windows>>

logVars == <<logs>>

rectVars == <<rectCapture>>

envVars == <<tmuxUp>>

alertVars == <<alertUi>>

\* Every callback belongs to one subsystem and leaves the others alone.
OnlyCards == UNCHANGED <<tmuxVars, asrVars, voiceVars, winVars, logVars, rectVars, envVars, alertVars>>
OnlyTmux == UNCHANGED <<cardVars, asrVars, voiceVars, winVars, logVars, rectVars, envVars, alertVars>>
OnlyAsr == UNCHANGED <<cardVars, tmuxVars, voiceVars, winVars, logVars, rectVars, envVars, alertVars>>
OnlyVoice == UNCHANGED <<cardVars, tmuxVars, asrVars, winVars, logVars, rectVars, envVars, alertVars>>
OnlyWin == UNCHANGED <<cardVars, tmuxVars, asrVars, voiceVars, logVars, rectVars, envVars, alertVars>>
OnlyLogs == UNCHANGED <<cardVars, tmuxVars, asrVars, voiceVars, winVars, rectVars, envVars, alertVars>>
OnlyRect == UNCHANGED <<cardVars, tmuxVars, asrVars, voiceVars, winVars, logVars, envVars, alertVars>>
OnlyAlert == UNCHANGED <<cardVars, tmuxVars, asrVars, voiceVars, winVars, logVars, rectVars, envVars>>

vars == <<cardVars, tmuxVars, asrVars, voiceVars, winVars, logVars, rectVars, envVars,
          alertVars>>

\* ------------------------------------------------------------- helpers
Min(a, b) == IF a < b THEN a ELSE b

Range(s) == {s[k] : k \in 1..Len(s)}

\* Array.prototype.slice(0, n)
Slice(s, n) == SubSeq(s, 1, Min(Len(s), n))

\* Array.prototype.filter((card) => card.id !== id)
RECURSIVE FilterOut(_, _)
FilterOut(s, id) ==
    IF s = <<>> THEN <<>>
    ELSE IF Head(s) = id THEN FilterOut(Tail(s), id)
         ELSE <<Head(s)>> \o FilterOut(Tail(s), id)

NoDup(s) == \A a, b \in 1..Len(s) : s[a] = s[b] => a = b

\* ============================================================ cards
Slots == 1..MaxReq

Kinds == {"cards-load", "cards-save", "cards-capture", "window-capture",
          "window-capture-temp", "cards-update", "cards-delete"}

\* Lengths of the list found in cards.json when the behaviour starts.
PriorLens == {0, CardCap - 1, CardCap}

IdleReq == [kind |-> "none", pc |-> "idle", id |-> 0, rect |-> FALSE,
            arg |-> 0, payload |-> <<>>, cards |-> <<>>, result |-> <<>>,
            err |-> "", spawns |-> <<>>, idOk |-> "", rectOk |-> "",
            writes |-> 0, prior |-> <<>>, alone |-> FALSE]

InFlight(r) == r.pc \notin {"idle", "done", "failed"}

\* Mutant: an id generator that repeats itself.
RandomUUIDRepeats == CardCap + 1

\* crypto.randomUUID(): a value that was never drawn before.
RandomUUID == CardCap + uuids + 1

\* Mutant: the new list is not truncated.
PrependNoSlice(id, cards) == <<id>> \o cards

\* const next = [card, ...cards].slice(0, 20)
Prepend(id, cards) == Slice(<<id>> \o cards, CardCap)

\* The handler is entered: ids are drawn, the first command is spawned.
\* Slots are taken in order; a request that starts while others are in flight
\* marks all of them as overlapped.
Begin(i, r) ==
    /\ req[i].pc = "idle"
    /\ \A j \in Slots : j < i => req[j].pc # "idle"
    /\ req' = [j \in Slots |->
                 IF j = i
                 THEN [r EXCEPT !.prior = cardsJson,
                                !.alone = \A k \in Slots : ~InFlight(req[k])]
                 ELSE IF InFlight(req[j]) THEN [req[j] EXCEPT !.alone = FALSE]
                 ELSE req[j]]

\* ipcMain.handle('cards-load')
StartCardsLoad(i) ==
    /\ Begin(i, [IdleReq EXCEPT !.kind = "cards-load", !.pc = "load"])
    /\ UNCHANGED <<cardsJson, uiCards, replies, uuids>>
    /\ OnlyCards

\* ipcMain.handle('cards-save'): id drawn, image file being written
StartCardsSave(i) ==
    /\ Begin(i, [IdleReq EXCEPT !.kind = "cards-save", !.pc = "imgwrite",
                                !.id = RandomUUID])
    /\ uuids' = uuids + 1
    /\ UNCHANGED <<cardsJson, uiCards, replies>>
    /\ OnlyCards

\* await fsPromises.writeFile(filePath, buffer) of cards-save
ImageWritten(i, ok) ==
    /\ req[i].pc = "imgwrite"
    /\ req' = [req EXCEPT ![i].pc = IF ok THEN "load" ELSE "failed",
                          ![i].err = IF ok THEN "" ELSE "write"]
    /\ UNCHANGED <<cardsJson, uiCards, replies, uuids>>
    /\ OnlyCards

\* ipcMain.handle('cards-capture'): screencapture -R spawned
StartCardsCapture(i) ==
    /\ Begin(i, [IdleReq EXCEPT !.kind = "cards-capture", !.pc = "capRect",
                                !.id = RandomUUID, !.rect = TRUE,
                                !.spawns = <<"rect">>])
    /\ uuids' = uuids + 1
    /\ UNCHANGED <<cardsJson, uiCards, replies>>
    /\ OnlyCards

\* ipcMain.handle('window-capture') and ('window-capture-temp'):
\* captureWithId() spawned; the payload may or may not carry a rect
StartWindowCapture(i, kind, rect) ==
    /\ Begin(i, [IdleReq EXCEPT !.kind = kind, !.pc = "capId",
                                !.id = RandomUUID, !.rect = rect,
                                !.spawns = <<"id">>])
    /\ uuids' = uuids + 1
    /\ UNCHANGED <<cardsJson, uiCards, replies>>
    /\ OnlyCards

\* What follows a successful capture: the card handlers go on to loadCards,
\* window-capture-temp returns its proxy record.
AfterCapture(r) ==
    IF r.kind = "window-capture-temp"
    THEN [r EXCEPT !.pc = "done", !.result = <<r.id>>]
    ELSE [r EXCEPT !.pc = "load"]

\* Mutant: the missing rectangle is not checked, the command is spawned anyway.
CaptureWithRectUnchecked(r) == [r EXCEPT !.pc = "capRect", !.spawns = Append(r.spawns, "rect")]

\* captureWithRect(): rejects at once without a rect, else spawns screencapture -R
CaptureWithRect(r) ==
    IF ~r.rect
    THEN [r EXCEPT !.pc = "failed", !.err = "missing rect"]
    ELSE [r EXCEPT !.pc = "capRect", !.spawns = Append(r.spawns, "rect")]

\* callback of screencapture -l: resolve, or reject and fall back
CaptureIdDone(i, ok) ==
    /\ req[i].pc = "capId"
    /\ req' = [req EXCEPT ![i] =
                 IF ok THEN AfterCapture([req[i] EXCEPT !.idOk = "ok"])
                 ELSE CaptureWithRect([req[i] EXCEPT !.idOk = "fail"])]
    /\ UNCHANGED <<cardsJson, uiCards, replies, uuids>>
    /\ OnlyCards

\* Mutant: the rejection is swallowed and the handler goes on to build a card.
RectFailedSwallowed(r) == [r EXCEPT !.pc = "load"]

\* What a rejected rectangle capture does to the request: the handler throws.
RectFailed(r) == [r EXCEPT !.pc = "failed", !.err = "exec"]

\* callback of screencapture -R
CaptureRectDone(i, ok) ==
    /\ req[i].pc = "capRect"
    /\ req' = [req EXCEPT ![i] =
                 IF ok THEN AfterCapture([req[i] EXCEPT !.rectOk = "ok"])
                 ELSE RectFailed([req[i] EXCEPT !.rectOk = "fail"])]
    /\ UNCHANGED <<cardsJson, uiCards, replies, uuids>>
    /\ OnlyCards

\* ipcMain.handle('cards-update'): the renderer sends a map of its own list
\* (persistCards); the map keeps ids and order.
StartCardsUpdate(i) ==
    /\ Begin(i, [IdleReq EXCEPT !.kind = "cards-update", !.pc = "save",
                                !.payload = uiCards, !.result = uiCards])
    /\ UNCHANGED <<cardsJson, uiCards, replies, uuids>>
    /\ OnlyCards

\* The cards the user is taken to delete: the newest and the oldest one shown.
DeleteTargets == IF uiCards = <<>> THEN {} ELSE {uiCards[1], uiCards[Len(uiCards)]}

\* ipcMain.handle('cards-delete'), invoked by handleCardDelete for a shown card
StartCardsDelete(i, id) ==
    /\ id \in DeleteTargets
    /\ Begin(i, [IdleReq EXCEPT !.kind = "cards-delete", !.pc = "load",
                                !.arg = id])
    /\ UNCHANGED <<cardsJson, uiCards, replies, uuids>>
    /\ OnlyCards

\* Mutant: the new card is put behind the loaded ones.
NextCardsAppended(r, cards) ==
    IF r.kind = "cards-delete" THEN FilterOut(cards, r.arg)
    ELSE Slice(cards \o <<r.id>>, CardCap)

\* Mutant: a full list loses its newest card instead of its oldest.
NextCardsDropsNewest(r, cards) ==
    IF r.kind = "cards-delete" THEN FilterOut(cards, r.arg)
    ELSE IF Len(cards) >= CardCap THEN <<r.id>> \o Tail(cards)
    ELSE <<r.id>> \o cards

\* What the handler computes from the list it loaded.
NextCards(r, cards) ==
    IF r.kind = "cards-delete" THEN FilterOut(cards, r.arg)
    ELSE Prepend(r.id, cards)

\* const cards = await loadCards()
LoadCards(i) ==
    /\ req[i].pc = "load"
    /\ LET r == req[i] IN
       req' = [req EXCEPT ![i] =
                 IF r.kind = "cards-load"
                 THEN [r EXCEPT !.pc = "done", !.cards = cardsJson,
                                !.result = cardsJson]
                 ELSE IF r.kind = "cards-delete" /\ r.arg \in Range(cardsJson)
                 THEN [r EXCEPT !.pc = "unlink", !.cards = cardsJson,
                                !.result = NextCards(r, cardsJson)]
                 ELSE [r EXCEPT !.pc = "save", !.cards = cardsJson,
                                !.result = NextCards(r, cardsJson)]]
    /\ replies' = IF req[i].kind = "cards-load"
                  THEN Append(replies, [kind |-> "cards-load", list |-> cardsJson])
                  ELSE replies
    /\ UNCHANGED <<cardsJson, uiCards, uuids>>
    /\ OnlyCards

\* Mutant: a failing unlink is not caught and ends the handler.
UnlinkThrows(i, ok) ==
    /\ req[i].pc = "unlink"
    /\ ok \in BOOLEAN
    /\ req' = [req EXCEPT ![i].pc = IF ok THEN "save" ELSE "failed"]
    /\ UNCHANGED <<cardsJson, uiCards, replies, uuids>>
    /\ OnlyCards

\* await fsPromises.unlink(target.filePath), errors swallowed
Unlink(i, ok) ==
    /\ req[i].pc = "unlink"
    /\ ok \in BOOLEAN
    /\ req' = [req EXCEPT ![i].pc = "save"]
    /\ UNCHANGED <<cardsJson, uiCards, replies, uuids>>
    /\ OnlyCards

\* await saveCards(next); return next (cards-update returns true)
SaveCards(i) ==
    /\ req[i].pc = "save"
    /\ cardsJson' = req[i].result
    /\ req' = [req EXCEPT ![i].pc = "done", ![i].writes = @ + 1]
    /\ replies' = Append(replies, [kind |-> req[i].kind, list |-> req[i].result])
    /\ UNCHANGED <<uiCards, uuids>>
    /\ OnlyCards

\* The renderer's continuation after an invoke resolves: captureScreen,
\* handleCardDelete and the mount effect call setCards with the returned list;
\* persistCards ignores the result, and no renderer code awaits cards-save or
\* window-capture.
UiReply ==
    /\ replies # <<>>
    /\ uiCards' = IF Head(replies).kind \in {"cards-load", "cards-capture", "cards-delete"}
                  THEN Head(replies).list
                  ELSE uiCards
    /\ replies' = Tail(replies)
    /\ UNCHANGED <<cardsJson, req, uuids>>
    /\ OnlyCards

CardsInit ==
    /\ \E p \in PriorLens : cardsJson = [k \in 1..p |-> p - k + 1]
    /\ uiCards \in {<<>>, cardsJson}
    /\ req = [i \in Slots |-> IdleReq]
    /\ replies = <<>>
    /\ uuids = 0

NextCardsSys ==
    \/ \E i \in Slots : StartCardsLoad(i)
    \/ \E i \in Slots : StartCardsSave(i)
    \/ \E i \in Slots, ok \in BOOLEAN : ImageWritten(i, ok)
    \/ \E i \in Slots : StartCardsCapture(i)
    \/ \E i \in Slots, k \in {"window-capture", "window-capture-temp"}, rect \in BOOLEAN :
          StartWindowCapture(i, k, rect)
    \/ \E i \in Slots, ok \in BOOLEAN : CaptureIdDone(i, ok)
    \/ \E i \in Slots, ok \in BOOLEAN : CaptureRectDone(i, ok)
    \/ \E i \in Slots : StartCardsUpdate(i)
    \/ \E i \in Slots, id \in DeleteTargets : StartCardsDelete(i, id)
    \/ \E i \in Slots : LoadCards(i)
    \/ \E i \in Slots, ok \in BOOLEAN : Unlink(i, ok)
    \/ \E i \in Slots : SaveCards(i)
    \/ UiReply

\* ===================================================== claims: cards
CaptureKinds == {"cards-capture", "window-capture", "cards-save"}

Quiescent == \A i \in Slots : ~InFlight(req[i])

\* The cards created by the capture requests that completed.
NewCards == {req[i].id : i \in {j \in Slots : req[j].kind \in CaptureKinds /\ req[j].pc = "done"}}

\* Request i ran with no other card request in flight, and none came after it.
Solo(i) == req[i].alone /\ \A j \in Slots : j > i => req[j].pc = "idle"

\* C1: when only capture requests (cards-capture, window-capture, cards-save)
\* were issued and all of them have completed, the persisted list holds
\* min(N, 20) of the N new cards, whatever the interleaving of their
\* load and save steps.
C1_NoCaptureLost ==
    (Quiescent /\ \A i \in Slots : req[i].kind \in CaptureKinds \cup {"none"})
        => Cardinality(NewCards \cap Range(cardsJson)) = Min(Cardinality(NewCards), CardCap)

\* C2: the persisted Card List never has more than 20 entries.
C2_LengthWithinCap == Len(cardsJson) <= CardCap

\* C2 witness: a capture has completed on a list that was already full.
C2_Witness ==
    \E i \in Slots : /\ req[i].kind \in CaptureKinds
                     /\ req[i].pc = "done"
                     /\ Len(req[i].cards) = CardCap
                     /\ Len(cardsJson) = CardCap
                     /\ cardsJson[1] = req[i].id

\* C3: no two entries of the persisted Card List have the same id.
C3_IdsUnique == NoDup(cardsJson)

\* C3 witness: two cards created in this behaviour are in the list together.
C3_Witness ==
    \E a, b \in 1..Len(cardsJson) : a # b /\ cardsJson[a] > CardCap /\ cardsJson[b] > CardCap

\* C4: a cards-capture that ran to completion with no other card request in
\* flight returns a list of length min(p + 1, 20), p the length of the prior
\* list, whose new card has an id that is not in the prior list.
C4_SingleCapture ==
    \A i \in Slots :
        (req[i].kind = "cards-capture" /\ req[i].pc = "done" /\ req[i].alone)
            => /\ Len(req[i].result) = Min(Len(req[i].prior) + 1, CardCap)
               /\ req[i].result[1] = req[i].id
               /\ req[i].id \notin Range(req[i].prior)

\* C4 witness: such a capture completed on a full list and on a shorter one.
C4_Witness ==
    \E i, j \in Slots :
        /\ req[i].kind = "cards-capture" /\ req[i].pc = "done" /\ req[i].alone
        /\ Len(req[i].prior) = CardCap - 1
        /\ req[j].kind = "cards-capture" /\ req[j].pc = "done" /\ req[j].alone
        /\ Len(req[j].prior) = CardCap

WindowKinds == {"window-capture", "window-capture-temp"}

\* C6: in window-capture and window-capture-temp, once the handle-based capture
\* has failed: with a rectangle, one rectangle capture is spawned and the
\* request fails exactly when that capture fails; without a rectangle, the
\* request fails with "missing rect" and only the handle-based command was
\* ever spawned.
C6_Fallback ==
    \A i \in Slots :
        (req[i].kind \in WindowKinds /\ req[i].idOk = "fail")
            => IF req[i].rect
               THEN /\ req[i].spawns = <<"id", "rect">>
                    /\ req[i].rectOk = "ok" => req[i].pc # "failed"
                    /\ req[i].rectOk = "fail" => req[i].pc = "failed" /\ req[i].err = "exec"
                    /\ req[i].rectOk = "" => req[i].pc = "capRect"
               ELSE /\ req[i].pc = "failed"
                    /\ req[i].err = "missing rect"
                    /\ req[i].spawns = <<"id">>

\* C6 witness: one request fell back to the rectangle and completed, another
\* had no rectangle to fall back to.
C6_Witness ==
    \E i, j \in Slots :
        /\ req[i].kind \in WindowKinds /\ req[i].idOk = "fail" /\ req[i].rect
        /\ req[i].rectOk = "ok" /\ req[i].pc = "done"
        /\ req[j].kind \in WindowKinds /\ req[j].idOk = "fail" /\ ~req[j].rect
        /\ req[j].pc = "failed"

\* C7: a request whose last capture attempt failed (the rectangle capture,
\* after the handle-based one where there is one) has failed, has written the
\* list zero times, and, when nothing else ran, the list is the prior list.
C7_FailedCaptureNoMutation ==
    \A i \in Slots :
        req[i].rectOk = "fail"
            => /\ req[i].pc = "failed"
               /\ req[i].writes = 0
               /\ Solo(i) => cardsJson = req[i].prior

\* C7 witness: a window-capture lost both attempts on a non-empty list, after
\* an earlier request had changed that list.
C7_Witness ==
    \E i \in Slots :
        /\ req[i].kind = "window-capture"
        /\ req[i].idOk = "fail" /\ req[i].rectOk = "fail"
        /\ Solo(i)
        /\ req[i].prior # <<>>
        /\ \E j \in Slots : j < i /\ req[j].writes = 1

\* The list without the card of the given id, the others in their order.
Without(list, id) == SelectSeq(list, LAMBDA c : c # id)

\* C25: a cards-delete that ran with no other card request in flight returns
\* and persists the prior list without the card of the given id, the others
\* in their order (so the prior list itself when the id is not in it); the
\* unlink step leads to the save whether or not the file could be removed.
C25_DeleteRemovesOne ==
    [][\A i \in Slots :
          /\ \A ok \in BOOLEAN :
                Unlink(i, ok) => (req'[i].pc = "save" /\ req'[i].result = req[i].result)
          /\ (req[i].kind = "cards-delete" /\ req[i].alone /\ SaveCards(i))
                => /\ cardsJson' = Without(req[i].prior, req[i].arg)
                   /\ req'[i].result = cardsJson'
                   /\ replies'[Len(replies')].list = cardsJson'
                   /\ req[i].arg \notin Range(req[i].prior) => cardsJson' = req[i].prior]_vars

\* C25 witness: the same card was deleted twice, one request after the other;
\* the second found the list of the first and left it as it was.
C25_Witness ==
    \E i, j \in Slots :
        /\ i < j
        /\ req[i].kind = "cards-delete" /\ req[i].pc = "done" /\ req[i].alone
        /\ req[j].kind = "cards-delete" /\ req[j].pc = "done" /\ req[j].alone
        /\ req[i].arg = req[j].arg
        /\ req[i].arg \in Range(req[i].prior)
        /\ req[j].prior = req[i].result
        /\ cardsJson = req[i].result

\* The requests that create a card, and those that overwrite or delete.
CaptureReqs == {i \in Slots : req[i].kind \in CaptureKinds}

\* C27: when at most one capture ran together with cards-update and
\* cards-delete requests and all of them have completed, the card the capture
\* created is in the persisted list unless a delete asked for it, and no card
\* whose delete completed is in the list.
C27_MutationsSerialized ==
    (Quiescent /\ Cardinality(CaptureReqs) <= 1
               /\ \A i \in Slots :
                     req[i].kind \in CaptureKinds \cup {"cards-update", "cards-delete", "none"})
        => /\ \A i \in CaptureReqs :
                 (req[i].pc = "done"
                    /\ \A j \in Slots : ~(req[j].kind = "cards-delete" /\ req[j].arg = req[i].id))
                    => req[i].id \in Range(cardsJson)
           /\ \A j \in Slots :
                 (req[j].kind = "cards-delete" /\ req[j].pc = "done")
                    => req[j].arg \notin Range(cardsJson)

\* C28: a capture that ran with no other card request in flight returns and
\* persists a list with the new card at index 0 and the prior cards behind it
\* in their order; of a prior list of 20 exactly the last card is missing.
C28_PrependKeepsOrder ==
    \A i \in Slots :
        (req[i].kind \in CaptureKinds /\ req[i].pc = "done" /\ req[i].alone)
            => /\ req[i].result[1] = req[i].id
               /\ Len(req[i].result) = Min(Len(req[i].prior) + 1, CardCap)
               /\ \A k \in 1..(Len(req[i].result) - 1) : req[i].result[k + 1] = req[i].prior[k]
               /\ req[i].writes = 1
               /\ Solo(i) => cardsJson = req[i].result

\* C28 witness: a cards-save completed alone on a list of 20 cards.
C28_Witness ==
    \E i \in Slots :
        /\ req[i].kind = "cards-save" /\ req[i].pc = "done" /\ Solo(i)
        /\ Len(req[i].prior) = CardCap
        /\ cardsJson[2] = req[i].prior[1]
        /\ cardsJson[CardCap] = req[i].prior[CardCap - 1]
        /\ req[i].prior[CardCap] \notin Range(cardsJson)

\* ========================================================= watchdog
CycleIds == 1..MaxCycles

\* The lines a pane can print: a blank line, a plain line, and lines
\* carrying the ERROR and WARN markers, the first padded with blanks.
RawLines == {"", "a", " ERROR: x ", "WARN: y"}

\* String.prototype.trim on the lines above
Trim(l) == IF l = " ERROR: x " THEN "ERROR: x" ELSE l

\* line.includes('ERROR') || line.includes('WARN')
HasMarker(l) == l \in {" ERROR: x ", "ERROR: x", "WARN: y"}

RECURSIVE SeqsUpTo(_, _)
SeqsUpTo(S, n) ==
    IF n = 0 THEN {<<>>}
    ELSE LET shorter == SeqsUpTo(S, n - 1)
         IN shorter \cup {Append(q, x) : q \in {t \in shorter : Len(t) = n - 1}, x \in S}

\* A pane that printed one line more than the scrollback the watchdog keeps:
\* a marker line first, plain lines after it.
LongStdout == [k \in 1..(TmuxScrollback + 1) |-> IF k = 1 THEN "WARN: y" ELSE "a"]

Stdouts == SeqsUpTo(RawLines, MaxLines) \cup {LongStdout}

\* Array.prototype.slice(-n)
SliceLast(s, n) == IF Len(s) <= n THEN s ELSE SubSeq(s, Len(s) - n + 1, Len(s))

\* .map((line) => line.trim()).filter(Boolean)
TrimNonBlank(s) ==
    SelectSeq([k \in 1..Len(s) |-> Trim(s[k])], LAMBDA l : l # "")

\* stdout.split('\n').map((line) => line.trim()).filter(Boolean).slice(-120)
ParseLines(stdout) == SliceLast(TrimNonBlank(stdout), TmuxScrollback)

\* Mutant: the first marker line is taken.
FindFirst(lines) ==
    LET hits == SelectSeq(lines, HasMarker)
    IN IF hits = <<>> THEN "" ELSE hits[1]

\* lines.findLast(...), "" when no line matches
FindLast(lines) ==
    LET hits == SelectSeq(lines, HasMarker)
    IN IF hits = <<>> THEN "" ELSE hits[Len(hits)]

\* Mutant: every marker line alerts, repeated or not.
ShouldAlertAlways(hit, last) == hit # ""

\* if (hit && hit !== lastTmuxAlert)
ShouldAlert(hit, last) == hit # "" /\ hit # last

Ev(type, status, lines, message) ==
    [type |-> type, status |-> status, lines |-> lines, message |-> message]

IdlePoll == [pc |-> "idle", session |-> "", target |-> <<>>]

\* tmuxConfig.window and tmuxConfig.pane are '0'; tmuxTarget starts as a copy
\* of the configuration.
ConfigTarget(session) == [session |-> session, window |-> "0", pane |-> "0"]

\* `${targetSession}:${targetWindow}.${targetPane}`, kept as its three parts
CaptureTarget(session) ==
    << IF tmuxTarget.session # "" THEN tmuxTarget.session ELSE session,
       IF tmuxTarget.window # "" THEN tmuxTarget.window ELSE ConfigTarget(session).window,
       IF tmuxTarget.pane # "" THEN tmuxTarget.pane ELSE ConfigTarget(session).pane >>

\* The targets a tmux-set-target message can carry.
Targets == {[session |-> "dev", window |-> "1", pane |-> "2"],
            [session |-> "", window |-> "", pane |-> ""]}

\* Mutant: a retarget forgets the last alert.
TmuxSetTargetResets(target) ==
    /\ tmuxTarget' = target
    /\ tmuxOut' = <<>>
    /\ lastTmuxAlert' = ""
    /\ UNCHANGED <<tmuxSession, poll, cycles>>
    /\ OnlyTmux

\* ipcMain.on('tmux-set-target')
TmuxSetTarget(target) ==
    /\ tmuxTarget' = target
    /\ tmuxOut' = <<>>
    /\ UNCHANGED <<tmuxSession, lastTmuxAlert, poll, cycles>>
    /\ OnlyTmux

\* pollTmux() entered by the timer or by createWindow; the timer does not wait
\* for the previous cycle.  resolveTmuxSession() spawns list-sessions unless
\* tmuxConfig.session is set.
PollStart(c) ==
    /\ poll[c].pc = "idle"
    /\ \A d \in CycleIds : d < c => poll[d].pc # "idle"
    /\ poll' = [poll EXCEPT ![c].pc = "resolve"]
    /\ tmuxOut' = <<Ev("tmux-debug", "", <<>>, "polling")>>
    /\ UNCHANGED <<tmuxSession, tmuxTarget, lastTmuxAlert, cycles>>
    /\ OnlyTmux

\* Mutant: the cycle goes on to capture-pane without a session.
PollResolvedUnchecked(c, listed) ==
    /\ poll[c].pc = "resolve"
    /\ LET session == IF tmuxSession # "" THEN tmuxSession ELSE listed IN
       /\ poll' = [poll EXCEPT ![c].pc = "capture", ![c].session = session,
                               ![c].target = CaptureTarget(session)]
       /\ tmuxOut' = <<>>
       /\ cycles' = cycles
    /\ UNCHANGED <<tmuxSession, tmuxTarget, lastTmuxAlert>>
    /\ OnlyTmux

\* Mutant: once a cycle has ended offline or in error, every later cycle ends
\* offline.
PollResolvedSticky(c, listed) ==
    /\ poll[c].pc = "resolve"
    /\ LET session == IF tmuxSession # "" THEN tmuxSession ELSE listed IN
       IF session = "" \/ cycles # <<>>
       THEN /\ poll' = [poll EXCEPT ![c].pc = "done"]
            /\ tmuxOut' = <<Ev("tmux-status", "offline", <<>>, ""),
                            Ev("tmux-debug", "", <<>>, "no sessions found")>>
            /\ cycles' = Append(cycles, [cycle |-> c, status |-> "offline", hit |-> "",
                                         before |-> lastTmuxAlert, alert |-> FALSE])
       ELSE /\ poll' = [poll EXCEPT ![c].pc = "capture", ![c].session = session,
                                     ![c].target = CaptureTarget(session)]
            /\ tmuxOut' = <<>>
            /\ cycles' = cycles
    /\ UNCHANGED <<tmuxSession, tmuxTarget, lastTmuxAlert>>
    /\ OnlyTmux

\* const session = await resolveTmuxSession(): the configured session, or the
\* first session listed, or null ("")
PollResolved(c, listed) ==
    /\ poll[c].pc = "resolve"
    /\ LET session == IF tmuxSession # "" THEN tmuxSession ELSE listed IN
       IF session = ""
       THEN /\ poll' = [poll EXCEPT ![c].pc = "done"]
            /\ tmuxOut' = <<Ev("tmux-status", "offline", <<>>, ""),
                            Ev("tmux-debug", "", <<>>, "no sessions found")>>
            /\ cycles' = Append(cycles, [cycle |-> c, status |-> "offline", hit |-> "",
                                         before |-> lastTmuxAlert, alert |-> FALSE])
       ELSE /\ poll' = [poll EXCEPT ![c].pc = "capture", ![c].session = session,
                                     ![c].target = CaptureTarget(session)]
            /\ tmuxOut' = <<>>
            /\ cycles' = cycles
    /\ UNCHANGED <<tmuxSession, tmuxTarget, lastTmuxAlert>>
    /\ OnlyTmux

\* Mutant: a failed capture still reports monitoring and forgets the last alert.
PollCaptureFailedQuietly(c) ==
    /\ poll[c].pc = "capture"
    /\ poll' = [poll EXCEPT ![c].pc = "done"]
    /\ tmuxOut' = <<Ev("tmux-status", "monitoring", <<>>, ""),
                    Ev("tmux-status", "error", <<>>, ""),
                    Ev("tmux-debug", "", <<>>, "capture-pane error")>>
    /\ cycles' = Append(cycles, [cycle |-> c, status |-> "error", hit |-> "",
                                 before |-> lastTmuxAlert, alert |-> FALSE])
    /\ lastTmuxAlert' = ""
    /\ UNCHANGED <<tmuxSession, tmuxTarget>>
    /\ OnlyTmux

\* callback of capture-pane with an error
PollCaptureFailed(c) ==
    /\ poll[c].pc = "capture"
    /\ poll' = [poll EXCEPT ![c].pc = "done"]
    /\ tmuxOut' = <<Ev("tmux-status", "error", <<>>, ""),
                    Ev("tmux-debug", "", <<>>, "capture-pane error")>>
    /\ cycles' = Append(cycles, [cycle |-> c, status |-> "error", hit |-> "",
                                 before |-> lastTmuxAlert, alert |-> FALSE])
    /\ UNCHANGED <<tmuxSession, tmuxTarget, lastTmuxAlert>>
    /\ OnlyTmux

\* callback of capture-pane with the pane's output
PollCaptured(c, stdout) ==
    /\ poll[c].pc = "capture"
    /\ LET lines == ParseLines(stdout)
           hit == FindLast(lines)
           alert == ShouldAlert(hit, lastTmuxAlert)
       IN /\ poll' = [poll EXCEPT ![c].pc = "done"]
          /\ lastTmuxAlert' = IF alert THEN hit ELSE lastTmuxAlert
          /\ tmuxOut' = <<Ev("tmux-status", "monitoring", <<>>, ""),
                          Ev("tmux-stream", "", lines, "")>>
                        \o (IF alert THEN <<Ev("tmux-alert", "", <<>>, hit)>> ELSE <<>>)
          /\ cycles' = Append(cycles, [cycle |-> c, status |-> "monitoring", hit |-> hit,
                                       before |-> lastTmuxAlert, alert |-> alert])
    /\ UNCHANGED <<tmuxSession, tmuxTarget>>
    /\ OnlyTmux

TmuxInit ==
    /\ tmuxSession \in {"", "main"}
    /\ tmuxTarget = ConfigTarget(tmuxSession)
    /\ lastTmuxAlert = ""
    /\ poll = [c \in CycleIds |-> IdlePoll]
    /\ cycles = <<>>
    /\ tmuxOut = <<>>

NextTmux ==
    \/ \E c \in CycleIds : PollStart(c)
    \/ \E c \in CycleIds, listed \in {"", "main"} : PollResolved(c, listed)
    \/ \E c \in CycleIds : PollCaptureFailed(c)
    \/ \E c \in CycleIds, stdout \in Stdouts : PollCaptured(c, stdout)

\* ------------------------------------------------------ on-demand logs
\* The value of a settled tmux-logs invocation; threw: the promise was rejected.
LogResult(ok, message, lines) ==
    [ok |-> ok, message |-> message, logs |-> lines, threw |-> FALSE]

IdleLogs == [pc |-> "idle", lines |-> 0, target |-> <<>>,
             result |-> LogResult(FALSE, "", <<>>)]

\* The argument of tmux-logs: a positive line count, or none.
LogArgs == {[given |-> FALSE, n |-> 0], [given |-> TRUE, n |-> 1],
            [given |-> TRUE, n |-> DefaultLogLines]}

\* ipcMain.handle('tmux-logs'): fetchTmuxLogs(lines) runs up to
\* await resolveTmuxSession()
LogsStart(arg) ==
    /\ logs.pc \in {"idle", "done"}
    /\ logs' = [IdleLogs EXCEPT !.pc = "resolve",
                                !.lines = IF arg.given THEN arg.n ELSE DefaultLogLines]
    /\ OnlyLogs

\* resolveTmuxSession() settles; the pane to read is
\* `${session}:${tmuxConfig.window}.${tmuxConfig.pane}`, whatever tmuxTarget is
LogsResolved(listed) ==
    /\ logs.pc = "resolve"
    /\ LET session == IF tmuxSession # "" THEN tmuxSession ELSE listed IN
       logs' = IF session = ""
               THEN [logs EXCEPT !.pc = "done",
                                 !.result = LogResult(FALSE, "no sessions found", <<>>)]
               ELSE [logs EXCEPT !.pc = "capture",
                                 !.target = <<session, ConfigTarget(session).window,
                                              ConfigTarget(session).pane>>]
    /\ OnlyLogs

\* callback of capture-pane with an error
LogsCaptureFailed ==
    /\ logs.pc = "capture"
    /\ logs' = [logs EXCEPT !.pc = "done",
                            !.result = LogResult(FALSE, "capture-pane error", <<>>)]
    /\ OnlyLogs

\* Mutant: every line of the output is returned as it was printed.
LogsCapturedRaw(stdout) ==
    /\ logs.pc = "capture"
    /\ logs' = [logs EXCEPT !.pc = "done", !.result = LogResult(TRUE, "", stdout)]
    /\ OnlyLogs

\* callback of capture-pane with the pane's output:
\* stdout.split('\n').map((line) => line.trim()).filter(Boolean).slice(-lines)
LogsCaptured(stdout) ==
    /\ logs.pc = "capture"
    /\ logs' = [logs EXCEPT !.pc = "done",
                            !.result = LogResult(TRUE, "",
                                                 SliceLast(TrimNonBlank(stdout), logs.lines))]
    /\ OnlyLogs

NextLogs ==
    \/ \E target \in Targets : TmuxSetTarget(target)
    \/ \E arg \in LogArgs : LogsStart(arg)
    \/ \E listed \in {"", "main"} : LogsResolved(listed)
    \/ LogsCaptureFailed
    \/ \E stdout \in Stdouts : LogsCaptured(stdout)

\* The watchdog with retargeting; the pane prints nothing or one marker line.
NextTarget ==
    \/ \E target \in Targets : TmuxSetTarget(target)
    \/ \E c \in CycleIds : PollStart(c)
    \/ \E c \in CycleIds, listed \in {"", "main"} : PollResolved(c, listed)
    \/ \E c \in CycleIds : PollCaptureFailed(c)
    \/ \E c \in CycleIds, stdout \in {<<>>, <<"WARN: y">>} : PollCaptured(c, stdout)

\* ------------------------------------------- the watchdog under a fair timer
\* The multiplexer becomes available and stays so.
TmuxComesUp ==
    /\ ~tmuxUp
    /\ tmuxUp' = TRUE
    /\ UNCHANGED <<cardVars, tmuxVars, asrVars, voiceVars, winVars, logVars, rectVars,
                   alertVars>>

\* list-sessions fails or lists nothing while the multiplexer is down.
ResolveWhileDown(c) == ~tmuxUp /\ PollResolved(c, "")

\* list-sessions lists a session once the multiplexer is up.
ResolveWhileUp(c) == tmuxUp /\ PollResolved(c, "main")

\* capture-pane fails while the multiplexer is down.
CaptureFailsWhileDown(c) == ~tmuxUp /\ PollCaptureFailed(c)

\* capture-pane prints the pane once the multiplexer is up.
CaptureWhileUp(c, stdout) == tmuxUp /\ PollCaptured(c, stdout)

NextFair ==
    \/ TmuxComesUp
    \/ \E c \in CycleIds : PollStart(c)
    \/ \E c \in CycleIds : ResolveWhileDown(c)
    \/ \E c \in CycleIds : ResolveWhileUp(c)
    \/ \E c \in CycleIds : CaptureFailsWhileDown(c)
    \/ \E c \in CycleIds, stdout \in {<<>>, <<"WARN: y">>} : CaptureWhileUp(c, stdout)

\* setInterval fires again and again, and a tmux command that can succeed
\* calls back.
Fairness ==
    /\ WF_vars(\E c \in CycleIds : PollStart(c))
    /\ WF_vars(\E c \in CycleIds : ResolveWhileUp(c))
    /\ WF_vars(\E c \in CycleIds, stdout \in {<<>>, <<"WARN: y">>} : CaptureWhileUp(c, stdout))

\* ------------------------------------------------ renderer: alert panel
\* useState(false), useState(null), and no event under way; seen counts the
\* watchdog cycles whose events have reached the renderer.
IdleAlertUi == [visible |-> FALSE, message |-> "", seen |-> 0, inbox |-> <<>>]

\* The events of every completed cycle have reached the renderer.
Delivered == alertUi.seen = Len(cycles)

\* The tmux-stream and tmux-alert events of the cycle that completed last
\* reach the renderer, in the order they were sent.
IpcDeliver ==
    /\ ~Delivered
    /\ alertUi' = [alertUi EXCEPT
                      !.seen = Len(cycles),
                      !.inbox = @ \o SelectSeq(tmuxOut,
                                     LAMBDA e : e.type \in {"tmux-stream", "tmux-alert"})]
    /\ OnlyAlert

\* lines.find((line) => line.includes('ERROR') || line.includes('WARN'))
FindMarker(lines) ==
    LET hits == SelectSeq(lines, HasMarker)
    IN IF hits = <<>> THEN "" ELSE hits[1]

\* handleStream, the listener of 'tmux-stream'
HandleStream ==
    /\ alertUi.inbox # <<>>
    /\ Head(alertUi.inbox).type = "tmux-stream"
    /\ LET lines == Head(alertUi.inbox).lines IN
       alertUi' = IF lines # <<>> /\ FindMarker(lines) # ""
                  THEN [alertUi EXCEPT !.inbox = Tail(@), !.visible = TRUE,
                                       !.message = FindMarker(lines)]
                  ELSE [alertUi EXCEPT !.inbox = Tail(@)]
    /\ OnlyAlert

\* handleTmuxAlert, the listener of 'tmux-alert'
HandleTmuxAlert ==
    /\ alertUi.inbox # <<>>
    /\ Head(alertUi.inbox).type = "tmux-alert"
    /\ alertUi' = [alertUi EXCEPT !.inbox = Tail(@), !.visible = TRUE,
                                  !.message = Head(alertUi.inbox).message]
    /\ OnlyAlert

\* handleAlertDismiss, the panel's dismiss button
HandleAlertDismiss ==
    /\ alertUi.visible
    /\ alertUi' = [alertUi EXCEPT !.visible = FALSE]
    /\ OnlyAlert

\* The watchdog's callbacks, each running once the renderer has been sent the
\* events of the cycles before.
WatchedPollStart(c) == Delivered /\ PollStart(c)

WatchedPollResolved(c) == Delivered /\ PollResolved(c, "main")

WatchedPollCaptured(c, stdout) == Delivered /\ PollCaptured(c, stdout)

\* The panes the alert panel is shown: no marker, one marker line, two.
AlertStdouts == {<<"a">>, <<"WARN: y">>, <<" ERROR: x ", "WARN: y">>}

NextAlert ==
    \/ \E c \in CycleIds : WatchedPollStart(c)
    \/ \E c \in CycleIds : WatchedPollResolved(c)
    \/ \E c \in CycleIds, stdout \in AlertStdouts : WatchedPollCaptured(c, stdout)
    \/ IpcDeliver
    \/ HandleStream
    \/ HandleTmuxAlert
    \/ HandleAlertDismiss

\* ================================================== claims: watchdog
\* The finished cycles that saw a marker line, in order of completion.
MarkerCycles == SelectSeq(cycles, LAMBDA y : y.status = "monitoring" /\ y.hit # "")

AlertCount(cs) == Cardinality({k \in 1..Len(cs) : cs[k].alert})

\* C5: a cycle emits an alert exactly when its scrollback has a last marker
\* line and that line differs from lastAlertLine as the cycle found it.  Of two
\* consecutive cycles with a marker line the second alerts exactly when its
\* line differs from the first's; when the first one's line is new, the two
\* emit one alert in total if their lines are identical and two if not.
C5_AlertDedup ==
    /\ \A k \in 1..Len(cycles) :
          cycles[k].alert <=> (cycles[k].hit # "" /\ cycles[k].hit # cycles[k].before)
    /\ \A k \in 1..(Len(MarkerCycles) - 1) :
          LET a == MarkerCycles[k]
              b == MarkerCycles[k + 1]
          IN /\ b.alert <=> b.hit # a.hit
             /\ a.hit # a.before =>
                   AlertCount(<<a, b>>) = IF a.hit = b.hit THEN 1 ELSE 2
    /\ \A k \in 1..Len(cycles) :
          (k = Len(cycles) /\ tmuxOut # <<>> /\ tmuxOut[1].status = "monitoring")
              => IF cycles[k].alert
                 THEN /\ Len(tmuxOut) = 3
                      /\ tmuxOut[3] = Ev("tmux-alert", "", <<>>, cycles[k].hit)
                      /\ lastTmuxAlert = cycles[k].hit
                 ELSE /\ Len(tmuxOut) = 2
                      /\ lastTmuxAlert = cycles[k].before

\* C5 witness: three cycles saw ERROR: x, ERROR: x (padded) and WARN: y; the
\* first and the third alerted, the second did not.
C5_Witness ==
    /\ Len(cycles) = 3
    /\ cycles[1].hit = "ERROR: x" /\ cycles[1].alert
    /\ cycles[2].hit = "ERROR: x" /\ ~cycles[2].alert
    /\ cycles[3].hit = "WARN: y" /\ cycles[3].alert
    /\ Len(tmuxOut) = 3

\* The cycles that are waiting for list-sessions or for capture-pane.
InFlightCycles == {c \in CycleIds : poll[c].pc \in {"resolve", "capture"}}

\* C18: at most one poll cycle is waiting for session resolution or for the
\* capture-pane command at any time.
C18_OneCycleInFlight == Cardinality(InFlightCycles) <= 1

\* C19: a cycle that finishes session resolution while a retarget with a
\* session, a window and a pane is in force goes on to capture exactly that
\* session:window.pane, whatever list-sessions returned.
C19_RetargetTakesEffect ==
    [][\A c \in CycleIds :
          (/\ poll[c].pc = "resolve"
           /\ poll'[c].pc # "resolve"
           /\ tmuxTarget.session # ""
           /\ tmuxTarget.window # ""
           /\ tmuxTarget.pane # "")
             => /\ poll'[c].pc = "capture"
                /\ poll'[c].target =
                      <<tmuxTarget.session, tmuxTarget.window, tmuxTarget.pane>>]_vars

\* C21: a tmux-logs invocation never ends in a rejection.  When no session
\* resolves, or capture-pane fails, it returns ok false with a message; when
\* the capture succeeds it returns ok true with at most `lines` lines (200 when
\* no count was given), each of them trimmed and non-blank.
C21_LogsNeverThrow ==
    [][/\ logs'.pc = "done" => ~logs'.result.threw
       /\ (tmuxSession = "" /\ LogsResolved(""))
             => (logs'.pc = "done" /\ ~logs'.result.ok /\ logs'.result.message # "")
       /\ LogsCaptureFailed
             => (logs'.pc = "done" /\ ~logs'.result.ok /\ logs'.result.message # "")
       /\ \A arg \in LogArgs : (~arg.given /\ LogsStart(arg)) => logs'.lines = 200
       /\ \A stdout \in Stdouts :
             LogsCaptured(stdout)
                => /\ logs'.pc = "done"
                   /\ logs'.result.ok
                   /\ Len(logs'.result.logs) <= logs.lines
                   /\ \A k \in 1..Len(logs'.result.logs) :
                         /\ logs'.result.logs[k] # ""
                         /\ Trim(logs'.result.logs[k]) = logs'.result.logs[k]]_vars

\* C21 witness: a fetch of one line returned the last non-blank line of a
\* pane that had printed two.
C21_Witness ==
    /\ logs.pc = "done"
    /\ logs.lines = 1
    /\ logs.result = LogResult(TRUE, "", <<"ERROR: x">>)

\* The types of the events the latest callback sent.
EventTypes == {tmuxOut[k].type : k \in 1..Len(tmuxOut)}

\* C29: a cycle whose session resolution yields no session sends status
\* offline and ends there: it never reaches capture-pane, sends no stream and
\* no alert event, and leaves lastTmuxAlert as it was.
C29_OfflineStopsCycle ==
    [][\A c \in CycleIds :
          (tmuxSession = "" /\ PollResolved(c, ""))
             => /\ poll'[c].pc = "done"
                /\ poll'[c].target = <<>>
                /\ tmuxOut'[1] = Ev("tmux-status", "offline", <<>>, "")
                /\ \A k \in 1..Len(tmuxOut') :
                      tmuxOut'[k].type \notin {"tmux-stream", "tmux-alert"}
                /\ lastTmuxAlert' = lastTmuxAlert]_vars

\* C29 witness: a cycle ended offline after an earlier cycle had alerted.
C29_Witness ==
    /\ cycles # <<>>
    /\ cycles[Len(cycles)].status = "offline"
    /\ tmuxOut # <<>>
    /\ tmuxOut[1].status = "offline"
    /\ lastTmuxAlert = "WARN: y"

\* C30: the callback of a failed capture-pane sends status error and one
\* debug message and nothing else, and leaves lastTmuxAlert as it was.
C30_CaptureErrorStopsCycle ==
    [][\A c \in CycleIds :
          PollCaptureFailed(c)
             => /\ tmuxOut' = <<Ev("tmux-status", "error", <<>>, ""),
                                Ev("tmux-debug", "", <<>>, "capture-pane error")>>
                /\ poll'[c].pc = "done"
                /\ lastTmuxAlert' = lastTmuxAlert]_vars

\* C30 witness: a capture failed after an earlier cycle had alerted.
C30_Witness ==
    /\ cycles # <<>>
    /\ cycles[Len(cycles)].status = "error"
    /\ EventTypes = {"tmux-status", "tmux-debug"}
    /\ tmuxOut[1].status = "error"
    /\ lastTmuxAlert = "ERROR: x"

\* The positions of the marker lines in a list of lines.
MarkerAt(lines) == {k \in 1..Len(lines) : HasMarker(lines[k])}

\* C31: the callback of a successful capture-pane (the step that takes a
\* cycle from capture to done and records it as monitoring) sends status monitoring,
\* then one stream event with at most 120 lines, each trimmed and non-blank,
\* then at most one alert event and nothing else; the alert's message is the
\* marker line of the stream that no other marker line follows.
C31_CycleEventOrder ==
    [][\A c \in CycleIds :
          (/\ poll[c].pc = "capture"
           /\ poll'[c].pc = "done"
           /\ cycles'[Len(cycles')].status = "monitoring")
             => /\ Len(tmuxOut') \in {2, 3}
                /\ tmuxOut'[1] = Ev("tmux-status", "monitoring", <<>>, "")
                /\ tmuxOut'[2].type = "tmux-stream"
                /\ Len(tmuxOut'[2].lines) <= 120
                /\ \A k \in 1..Len(tmuxOut'[2].lines) :
                      /\ tmuxOut'[2].lines[k] # ""
                      /\ Trim(tmuxOut'[2].lines[k]) = tmuxOut'[2].lines[k]
                /\ Len(tmuxOut') = 3
                      => /\ tmuxOut'[3].type = "tmux-alert"
                         /\ \E k \in MarkerAt(tmuxOut'[2].lines) :
                               /\ tmuxOut'[3].message = tmuxOut'[2].lines[k]
                               /\ \A j \in MarkerAt(tmuxOut'[2].lines) : j <= k]_vars

\* C31 witness: a pane with two different marker lines alerted with the second.
C31_Witness ==
    /\ Len(tmuxOut) = 3
    /\ tmuxOut[2].lines = <<"ERROR: x", "WARN: y">>
    /\ tmuxOut[3] = Ev("tmux-alert", "", <<>>, "WARN: y")

\* C40: lastTmuxAlert changes only in a step that sends an alert, and then to
\* that alert's non-empty message; retargets and cycles that end offline, in
\* error or without a marker line leave it as it was.  A marker line that was
\* alerted, was missing from the following captures and is back unchanged
\* raises no alert.
C40_AlertLineFrame ==
    /\ [][/\ lastTmuxAlert' # lastTmuxAlert
               => /\ lastTmuxAlert' # ""
                  /\ Len(tmuxOut') = 3
                  /\ tmuxOut'[3] = Ev("tmux-alert", "", <<>>, lastTmuxAlert')
           /\ \A target \in Targets :
                 TmuxSetTarget(target) => lastTmuxAlert' = lastTmuxAlert
           /\ \A c \in CycleIds :
                 (PollCaptureFailed(c) \/ PollCaptured(c, <<>>)
                    \/ \E listed \in {"", "main"} : PollResolved(c, listed))
                    => lastTmuxAlert' = lastTmuxAlert]_vars
    /\ [](\A a, b \in 1..Len(cycles) :
             (/\ a < b
              /\ cycles[a].alert
              /\ cycles[b].hit = cycles[a].hit
              /\ \A k \in (a + 1)..(b - 1) : cycles[k].hit = "")
                => ~cycles[b].alert)

\* C40 witness: WARN: y alerted, the next capture was empty, the pane was
\* retargeted, and the line came back in the new pane without an alert.
C40_Witness ==
    /\ Len(cycles) = 3
    /\ cycles[1].alert /\ cycles[1].hit = "WARN: y"
    /\ cycles[2].status = "monitoring" /\ cycles[2].hit = ""
    /\ cycles[3].hit = "WARN: y" /\ ~cycles[3].alert
    /\ poll[1].target # poll[3].target
    /\ poll[3].target = <<"dev", "1", "2">>
    /\ lastTmuxAlert = "WARN: y"

\* C32: whatever the earlier cycles ended in, a cycle whose session resolves
\* goes on to capture-pane and a successful capture-pane sends status
\* monitoring and the stream event; and under a fair timer, once the
\* multiplexer is available while a cycle is still to come or in flight, a
\* cycle eventually reports monitoring.
C32_NoFailureCarried ==
    /\ [][\A c \in CycleIds :
             /\ \A listed \in {"", "main"} :
                   (PollResolved(c, listed) /\ (tmuxSession # "" \/ listed # ""))
                      => poll'[c].pc = "capture"
             /\ \A stdout \in {<<>>, <<"WARN: y">>} :
                   PollCaptured(c, stdout)
                      => /\ tmuxOut'[1] = Ev("tmux-status", "monitoring", <<>>, "")
                         /\ tmuxOut'[2].type = "tmux-stream"]_vars
    /\ (tmuxUp /\ \E c \in CycleIds : poll[c].pc # "done")
          ~> (\E k \in 1..Len(cycles) : cycles[k].status = "monitoring")

\* C32 witness: two cycles ended offline, the third reported monitoring.
C32_Witness ==
    /\ Len(cycles) = 3
    /\ cycles[1].status = "offline"
    /\ cycles[2].status = "offline"
    /\ cycles[3].status = "monitoring"
    /\ tmuxOut[1] = Ev("tmux-status", "monitoring", <<>>, "")

\* C39: a log fetch that resolves its session while a retarget with a
\* session, a window and a pane is in force captures that session:window.pane,
\* the pane a poll cycle resolving at that moment would capture.
C39_LogsFollowTarget ==
    [][\A listed \in {"", "main"} :
          (/\ LogsResolved(listed)
           /\ logs'.pc = "capture"
           /\ tmuxTarget.session # "" /\ tmuxTarget.window # "" /\ tmuxTarget.pane # "")
             => /\ logs'.target = <<tmuxTarget.session, tmuxTarget.window, tmuxTarget.pane>>
                /\ logs'.target = CaptureTarget(IF tmuxSession # "" THEN tmuxSession ELSE listed)]_vars

\* C33: a stream event of a cycle that sent no alert, i.e. whose last marker
\* line is the one the core alerted last, leaves the alert panel as it was:
\* it is not shown again, in particular not after it was dismissed, and its
\* message stays the line the core deduplicates on.
C33_AlertOnlyOnChange ==
    [][(/\ HandleStream
        /\ \/ Len(alertUi.inbox) = 1
           \/ alertUi.inbox[2].type # "tmux-alert")
          => /\ alertUi'.visible = alertUi.visible
             /\ alertUi'.message = alertUi.message]_vars

\* ==================================================== transcription
\* A frame sent on a socket, or an event sent to the renderer.  A socket record
\* holds the readyState, the frames sent on it and the last text received on it.
Frame(name, task, chunk) == [name |-> name, task |-> task, chunk |-> chunk]

AsrEv(type, text, final, name) ==
    [type |-> type, text |-> text, isFinal |-> final, name |-> name]

\* threw: the callback ended with an exception it did not catch.
Op(op, sock, threw) == [op |-> op, sock |-> sock, task |-> asrTaskId, threw |-> threw]

\* The payload fields the handler compares with true: each is TRUE when the
\* field is the boolean true, FALSE when it is absent or anything else.
Flags(isFinal, final, sentenceEnd) ==
    [is_final |-> isFinal, final |-> final, sentence_end |-> sentenceEnd]

NoFlags == Flags(FALSE, FALSE, FALSE)

\* Messages of the provider: header.name, the text found in the payload, and
\* the payload's flags.  "garbage" is a message JSON.parse rejects.
Msg(name, result, flags) == [name |-> name, result |-> result, flags |-> flags]

Msgs == {Msg("TranscriptionStarted", "", NoFlags),
         Msg("TranscriptionResultChanged", "t", NoFlags),
         Msg("TranscriptionResultChanged", "t", Flags(TRUE, FALSE, FALSE)),
         Msg("TranscriptionResultChanged", "t", Flags(FALSE, TRUE, FALSE)),
         Msg("TranscriptionResultChanged", "t", Flags(FALSE, FALSE, TRUE)),
         Msg("SentenceEnd", "t", NoFlags),
         Msg("SentenceEnd", "", NoFlags),
         Msg("TranscriptionCompleted", "t", NoFlags),
         Msg("garbage", "", NoFlags)}

Live(sk) == sk.state \in {"connecting", "open"}

\* WebSocket.send as the ws package does it: a frame goes out on an OPEN
\* socket, a CONNECTING socket throws, a CLOSING or CLOSED one drops the frame.
SendOn(ss, t, frame) ==
    IF t # 0 /\ ss[t].state = "open"
    THEN [ss EXCEPT ![t].sent = Append(@, frame)]
    ELSE ss

SendThrows(ss, t) == t # 0 /\ ss[t].state = "connecting"

\* WebSocket.close(): an OPEN socket starts the closing handshake and still
\* delivers the messages that arrive before the peer's close frame; a
\* CONNECTING socket aborts its handshake and will never deliver a message.
\* Both report readyState CLOSING.
CloseSock(ss, t) ==
    IF ss[t].state = "open" THEN [ss EXCEPT ![t].state = "closing"]
    ELSE IF ss[t].state = "connecting" THEN [ss EXCEPT ![t].state = "aborting"]
    ELSE ss

\* ipcMain.handle('asr-start'): startAsrSession runs up to await fetchAliyunToken()
AsrStart ==
    /\ asrEnv.starts < MaxStarts
    /\ asrEnv' = [asrEnv EXCEPT !.starts = @ + 1, !.pending = @ + 1]
    /\ asrOp' = Op("asr-start", 0, FALSE)
    /\ asrOut' = <<>>
    /\ UNCHANGED <<asrSocket, asrTaskId, asrLastText, asrReady, asrAudioQueue, socks>>
    /\ OnlyAsr

\* The session the continuation of startAsrSession sets up once it has a token:
\* lines 114-119.
NewSession ==
    /\ asrTaskId' = Len(socks) + 1
    /\ asrLastText' = ""
    /\ asrReady' = FALSE
    /\ asrAudioQueue' = <<>>
    /\ socks' = Append(socks, [state |-> "connecting", sent |-> <<>>, text |-> ""])
    /\ asrSocket' = Len(socks) + 1

\* fetchAliyunToken() settles: tok is "token", "none" (null) or "throw"
\* (fetch or response.json() rejected, which rejects the asr-start invoke).
AsrToken(tok) ==
    /\ asrEnv.pending > 0
    /\ asrOp' = Op("asr-token", 0, tok = "throw")
    /\ asrEnv' = [asrEnv EXCEPT !.pending = @ - 1]
    /\ IF tok = "throw"
       THEN /\ asrOut' = <<>>
            /\ UNCHANGED <<asrSocket, asrTaskId, asrLastText, asrReady, asrAudioQueue, socks>>
       ELSE IF tok = "none" \/ ~asrEnv.appKey
       THEN /\ asrOut' = <<AsrEv("asr-error", "Missing token or appKey", FALSE, "")>>
            /\ UNCHANGED <<asrSocket, asrTaskId, asrLastText, asrReady, asrAudioQueue, socks>>
       ELSE /\ asrOut' = <<>>
            /\ NewSession
    /\ OnlyAsr

\* asrSocket.on('open'): the start message goes to whatever asrSocket is now
SockOpen(s) ==
    /\ s \in 1..Len(socks)
    /\ socks[s].state = "connecting"
    /\ LET opened == [socks EXCEPT ![s].state = "open"] IN
       /\ socks' = SendOn(opened, asrSocket, Frame("StartTranscription", asrTaskId, 0))
       /\ asrOp' = Op("open", s, SendThrows(opened, asrSocket))
    /\ asrOut' = <<>>
    /\ UNCHANGED <<asrSocket, asrTaskId, asrLastText, asrReady, asrAudioQueue, asrEnv>>
    /\ OnlyAsr

\* Mutant: payload.sentence_end is not looked at.
IsFinalWithoutSentenceEnd(m) ==
    \/ m.name = "SentenceEnd"
    \/ m.name = "TranscriptionCompleted"
    \/ m.flags.is_final
    \/ m.flags.final

\* name === 'SentenceEnd' || name === 'TranscriptionCompleted' ||
\* payload.is_final === true || payload.final === true ||
\* payload.sentence_end === true
IsFinal(m) ==
    \/ m.name = "SentenceEnd"
    \/ m.name = "TranscriptionCompleted"
    \/ m.flags.is_final
    \/ m.flags.final
    \/ m.flags.sentence_end

\* while (asrAudioQueue.length > 0 && asrSocket?.readyState === OPEN) send(shift())
RECURSIVE Flush(_, _, _)
Flush(ss, t, queue) ==
    IF queue # <<>> /\ t # 0 /\ ss[t].state = "open"
    THEN Flush(SendOn(ss, t, Frame("audio", 0, Head(queue))), t, Tail(queue))
    ELSE [socks |-> ss, queue |-> queue]

\* asrSocket.on('message')
SockMessage(s, m) ==
    /\ s \in 1..Len(socks)
    /\ socks[s].state \in {"open", "closing"}
    /\ asrEnv.msgs < MaxMsgs
    /\ asrEnv' = [asrEnv EXCEPT !.msgs = @ + 1]
    /\ asrOp' = Op("message", s, FALSE)
    /\ IF m.name = "garbage"
       THEN /\ asrOut' = <<>>
            /\ UNCHANGED <<asrSocket, asrTaskId, asrLastText, asrReady, asrAudioQueue, socks>>
       ELSE LET started == m.name = "TranscriptionStarted"
                flushed == IF started THEN Flush(socks, asrSocket, asrAudioQueue)
                           ELSE [socks |-> socks, queue |-> asrAudioQueue]
            IN /\ asrReady' = (asrReady \/ started)
               /\ socks' = [flushed.socks EXCEPT
                               ![s].text = IF m.result # "" THEN m.result ELSE @]
               /\ asrAudioQueue' = flushed.queue
               /\ asrLastText' = IF m.result # "" THEN m.result ELSE asrLastText
               /\ asrOut' = IF m.result # ""
                            THEN <<AsrEv("asr-result", m.result, IsFinal(m), m.name)>>
                            ELSE <<>>
               /\ UNCHANGED <<asrSocket, asrTaskId>>
    /\ OnlyAsr

\* asrSocket.on('close'): the handshake failed, the remote side closed, or a
\* local close() completed
SockClose(s) ==
    /\ s \in 1..Len(socks)
    /\ socks[s].state # "closed"
    /\ socks' = [socks EXCEPT ![s].state = "closed"]
    /\ asrOp' = Op("close", s, FALSE)
    /\ asrOut' = <<AsrEv("asr-result", asrLastText, TRUE, "")>>
    /\ UNCHANGED <<asrSocket, asrTaskId, asrLastText, asrReady, asrAudioQueue, asrEnv>>
    /\ OnlyAsr

\* Mutant: an error tears the session down.
SockErrorTearsDown(s) ==
    /\ s \in 1..Len(socks)
    /\ socks[s].state # "closed"
    /\ asrOp' = Op("error", s, FALSE)
    /\ asrOut' = <<AsrEv("asr-error", "transport", FALSE, "")>>
    /\ asrReady' = FALSE
    /\ asrAudioQueue' = <<>>
    /\ UNCHANGED <<asrSocket, asrTaskId, asrLastText, socks, asrEnv>>
    /\ OnlyAsr

\* Mutant: a transport error also empties the persisted Card List.
SockErrorDropsCards(s) ==
    /\ s \in 1..Len(socks)
    /\ socks[s].state # "closed"
    /\ asrOp' = Op("error", s, FALSE)
    /\ asrOut' = <<AsrEv("asr-error", "transport", FALSE, "")>>
    /\ cardsJson' = <<>>
    /\ UNCHANGED <<asrSocket, asrTaskId, asrLastText, asrReady, asrAudioQueue, socks, asrEnv>>
    /\ UNCHANGED <<uiCards, req, replies, uuids>>
    /\ UNCHANGED <<tmuxVars, voiceVars, winVars, logVars, rectVars, envVars, alertVars>>

\* asrSocket.on('error')
SockError(s) ==
    /\ s \in 1..Len(socks)
    /\ socks[s].state # "closed"
    /\ asrOp' = Op("error", s, FALSE)
    /\ asrOut' = <<AsrEv("asr-error", "transport", FALSE, "")>>
    /\ UNCHANGED <<asrSocket, asrTaskId, asrLastText, asrReady, asrAudioQueue, socks, asrEnv>>
    /\ OnlyAsr

\* Buffer.from(audio): the n-th buffer submitted, marked with the socket and
\* the readiness flag the submission found.
Chunk == [n |-> asrEnv.frames + 1, sess |-> asrSocket, ready |-> asrReady]

\* ipcMain.on('asr-audio')
AsrAudio ==
    /\ asrEnv.frames < MaxFrames
    /\ asrEnv' = [asrEnv EXCEPT !.frames = @ + 1]
    /\ asrOp' = Op("asr-audio", 0, FALSE)
    /\ asrOut' = <<>>
    /\ LET chunk == Chunk IN
       IF asrSocket # 0 /\ socks[asrSocket].state = "open" /\ asrReady
       THEN /\ socks' = SendOn(socks, asrSocket, Frame("audio", 0, chunk))
            /\ UNCHANGED asrAudioQueue
       ELSE /\ asrAudioQueue' = Append(asrAudioQueue, chunk)
            /\ UNCHANGED socks
    /\ UNCHANGED <<asrSocket, asrTaskId, asrLastText, asrReady>>
    /\ OnlyAsr

\* if (!asrSocket || !asrTaskId) return
StopIsNoop == asrSocket = 0 \/ asrTaskId = 0

\* Mutant: the resets run before the guard.
StopAsrSessionEager ==
    /\ asrReady' = FALSE
    /\ asrAudioQueue' = <<>>
    /\ IF StopIsNoop
       THEN UNCHANGED <<asrSocket, asrTaskId, asrLastText, socks>>
       ELSE /\ socks' = CloseSock(SendOn(socks, asrSocket,
                                         Frame("StopTranscription", asrTaskId, 0)),
                                  asrSocket)
            /\ asrSocket' = 0
            /\ asrTaskId' = 0
            /\ UNCHANGED asrLastText

\* Mutant: a failing send of the stop message is not caught and ends the call.
StopAsrSessionThrows ==
    IF StopIsNoop \/ SendThrows(socks, asrSocket)
    THEN UNCHANGED <<asrSocket, asrTaskId, asrLastText, asrReady, asrAudioQueue, socks>>
    ELSE /\ socks' = CloseSock(SendOn(socks, asrSocket,
                                      Frame("StopTranscription", asrTaskId, 0)),
                               asrSocket)
         /\ asrSocket' = 0
         /\ asrTaskId' = 0
         /\ asrReady' = FALSE
         /\ asrAudioQueue' = <<>>
         /\ UNCHANGED asrLastText

\* stopAsrSession(), called by ipcMain.on('asr-stop')
StopAsrSession ==
    IF StopIsNoop
    THEN UNCHANGED <<asrSocket, asrTaskId, asrLastText, asrReady, asrAudioQueue, socks>>
    ELSE /\ socks' = CloseSock(SendOn(socks, asrSocket,
                                      Frame("StopTranscription", asrTaskId, 0)),
                               asrSocket)
         /\ asrSocket' = 0
         /\ asrTaskId' = 0
         /\ asrReady' = FALSE
         /\ asrAudioQueue' = <<>>
         /\ UNCHANGED asrLastText

AsrStop ==
    /\ StopAsrSession
    /\ asrOp' = Op("asr-stop", 0, FALSE)
    /\ asrOut' = <<>>
    /\ UNCHANGED asrEnv
    /\ OnlyAsr

AsrInit ==
    /\ asrSocket = 0
    /\ asrTaskId = 0
    /\ asrLastText = ""
    /\ asrReady = FALSE
    /\ asrAudioQueue = <<>>
    /\ socks = <<>>
    /\ \E k \in BOOLEAN :
          asrEnv = [appKey |-> k, pending |-> 0, starts |-> 0, frames |-> 0, msgs |-> 0]
    /\ asrOp = [op |-> "init", sock |-> 0, task |-> 0, threw |-> FALSE]
    /\ asrOut = <<>>

NextAsr ==
    \/ AsrStart
    \/ \E tok \in {"token", "none", "throw"} : AsrToken(tok)
    \/ \E s \in 1..Len(socks) : SockOpen(s)
    \/ \E s \in 1..Len(socks), m \in Msgs : SockMessage(s, m)
    \/ \E s \in 1..Len(socks) : SockClose(s)
    \/ \E s \in 1..Len(socks) : SockError(s)
    \/ AsrAudio
    \/ AsrStop

\* -------------------------------------- sessions with sentences in progress
\* The messages of a sentence: "i" is its text while it is in progress, "t" its
\* text once the provider has marked it final.
SentenceMsgs == {Msg("TranscriptionResultChanged", "i", NoFlags),
                 Msg("SentenceEnd", "t", NoFlags)}

NextSentences ==
    \/ AsrStart
    \/ \E tok \in {"token", "none"} : AsrToken(tok)
    \/ \E s \in 1..Len(socks) : SockOpen(s)
    \/ \E s \in 1..Len(socks), m \in SentenceMsgs : SockMessage(s, m)
    \/ \E s \in 1..Len(socks) : SockClose(s)
    \/ AsrStop

\* ============================================= claims: transcription
LiveSocks == {s \in 1..Len(socks) : Live(socks[s])}

\* C8: at most one transcription transport is connecting or open at any time.
C8_OneLiveTransport == Cardinality(LiveSocks) <= 1

\* C9: a stop request handled while no task id is active sends nothing,
\* closes nothing, emits nothing and leaves socket, task id, readiness flag,
\* audio queue and last text as they were.
C9_StopWithoutTaskIsNoop ==
    [][(asrOp'.op = "asr-stop" /\ asrTaskId = 0)
          => /\ UNCHANGED <<asrSocket, asrTaskId, asrReady, asrAudioQueue, asrLastText, socks>>
             /\ asrOut' = <<>>]_vars

\* C9 witness: a stop was handled with no task id, after an earlier session
\* had been stopped and with audio queued since.
C9_Witness ==
    /\ asrOp = [op |-> "asr-stop", sock |-> 0, task |-> 0, threw |-> FALSE]
    /\ socks # <<>>
    /\ asrAudioQueue # <<>>
    /\ asrTaskId = 0

\* The audio frames sent on socket s, in the order they went out.
AudioOf(s) == SelectSeq(socks[s].sent, LAMBDA f : f.name = "audio")

\* The chunk was submitted while s was the session's socket and the readiness
\* flag was still false.
Early(s, chunk) == chunk.sess = s /\ ~chunk.ready

\* C11: on every transport no audio chunk goes out twice, the chunks
\* submitted between the session's reset and its readiness go out in
\* submission order and ahead of every other chunk, and once the readiness flag
\* of the current session is set none of them is still waiting in the queue.
C11_QueuedAudioFlushed ==
    \A s \in 1..Len(socks) :
       LET a == AudioOf(s) IN
       /\ \A i, j \in 1..Len(a) : i < j => a[i].chunk.n # a[j].chunk.n
       /\ \A i, j \in 1..Len(a) :
             (i < j /\ Early(s, a[j].chunk))
                => (Early(s, a[i].chunk) /\ a[i].chunk.n < a[j].chunk.n)
       /\ (asrSocket = s /\ asrReady)
             => \A k \in 1..Len(asrAudioQueue) : ~Early(s, asrAudioQueue[k])

\* C12: the step that closes a transport pushes exactly one final transcript
\* event, and its text is the last text received on that transport.
C12_CloseReportsSessionText ==
    [][\A s \in 1..Len(socks) :
          (socks[s].state # "closed" /\ socks'[s].state = "closed")
             => asrOut' = <<AsrEv("asr-result", socks[s].text, TRUE, "")>>]_vars

\* C13: when the transport of the current session is closed by the remote
\* side the task id is cleared, the readiness flag is false and the audio queue
\* is empty; an audio frame submitted after such a close is not queued.
C13_RemoteCloseDestroysSession ==
    [][/\ \A s \in 1..Len(socks) :
             (asrSocket = s /\ socks[s].state # "closed" /\ socks'[s].state = "closed")
                => (asrTaskId' = 0 /\ ~asrReady' /\ asrAudioQueue' = <<>>)
       /\ (asrOp'.op = "asr-audio" /\ asrSocket # 0 /\ socks[asrSocket].state = "closed")
             => asrAudioQueue' = asrAudioQueue]_vars

\* C14: a start request that gets no token, or has no app key, or whose token
\* request fails, sends the error event to the renderer, throws nothing, opens
\* no transport and leaves task id, readiness, queue and last text as they were.
C14_AuthFailureReported ==
    [][(\E tok \in {"token", "none", "throw"} :
           AsrToken(tok) /\ (tok # "token" \/ ~asrEnv.appKey))
          => /\ asrOut' = <<AsrEv("asr-error", "Missing token or appKey", FALSE, "")>>
             /\ ~asrOp'.threw
             /\ UNCHANGED <<asrSocket, asrTaskId, asrReady, asrAudioQueue, asrLastText, socks>>]_vars

\* C15: a transport error sends exactly one error event and leaves socket
\* reference, task id, readiness flag, audio queue, last text and every
\* transport as they were.
C15_ErrorKeepsSession ==
    [][asrOp'.op = "error"
          => /\ Len(asrOut') = 1
             /\ asrOut'[1].type = "asr-error"
             /\ UNCHANGED <<asrSocket, asrTaskId, asrReady, asrAudioQueue, asrLastText, socks>>]_vars

\* C15 witness: an error was reported on the socket of a session that has a
\* task id and queued audio.
C15_Witness ==
    /\ asrOp.op = "error"
    /\ asrOp.sock = asrSocket
    /\ asrTaskId # 0
    /\ asrAudioQueue # <<>>
    /\ Len(asrOut) = 1

\* C16: a stop with an active task id puts at most one frame, the stop-control
\* message, on the session's transport, closes that transport, touches no
\* other transport, throws nothing and leaves task id null, readiness false and
\* the queue empty; a stop that follows such a stop directly changes nothing.
C16_StopTearsDown ==
    [][/\ (asrOp'.op = "asr-stop" /\ asrTaskId # 0)
             => /\ asrSocket # 0
                /\ socks'[asrSocket].state \in {"closing", "aborting", "closed"}
                /\ \/ socks'[asrSocket].sent = socks[asrSocket].sent
                   \/ socks'[asrSocket].sent =
                         Append(socks[asrSocket].sent,
                                Frame("StopTranscription", asrTaskId, 0))
                /\ \A t \in 1..Len(socks) : t # asrSocket => socks'[t] = socks[t]
                /\ asrTaskId' = 0
                /\ asrSocket' = 0
                /\ asrReady' = FALSE
                /\ asrAudioQueue' = <<>>
                /\ ~asrOp'.threw
       /\ (asrOp.op = "asr-stop" /\ asrOp.task # 0 /\ asrOp'.op = "asr-stop")
             => /\ UNCHANGED <<asrSocket, asrTaskId, asrReady, asrAudioQueue,
                               asrLastText, socks>>
                /\ asrOut' = <<>>]_vars

\* C16 witness: a session was stopped while its socket was still connecting,
\* so the stop-control message could not be sent.
C16_Witness ==
    /\ asrOp.op = "asr-stop"
    /\ asrOp.task # 0
    /\ asrTaskId = 0
    /\ ~asrReady
    /\ asrAudioQueue = <<>>
    /\ socks[asrOp.task].state = "aborting"
    /\ socks[asrOp.task].sent = <<>>

\* The start-control messages sent on socket s.
StartsSent(s) == SelectSeq(socks[s].sent, LAMBDA f : f.name = "StartTranscription")

\* C17: nothing is sent on a transport that has not opened, a transport
\* carries at most one start-control message, and the readiness flag of the
\* current session is true only if the start-control message went out on its
\* transport.
C17_ForwardOnly ==
    /\ \A s \in 1..Len(socks) :
          /\ socks[s].sent # <<>> => socks[s].state # "connecting"
          /\ Len(StartsSent(s)) <= 1
    /\ (asrSocket # 0 /\ asrReady) => StartsSent(asrSocket) # <<>>

\* C35: the readiness flag of a session becomes true only through a message
\* received on that session's own transport; an audio frame goes out only on the
\* current session's transport, only while that transport is open and only
\* with the readiness flag true; and an asr-audio request either sends its
\* frame or puts it on the queue.
C35_AudioOnlyWhenReady ==
    [][/\ (asrSocket # 0 /\ ~asrReady /\ asrReady')
             => (asrOp'.op = "message" /\ asrOp'.sock = asrSocket)
       /\ \A s \in 1..Len(socks) :
             AudioOf(s)' # AudioOf(s)
                => (s = asrSocket' /\ asrReady' /\ socks'[s].state = "open")
       /\ asrOp'.op = "asr-audio"
             => \/ asrAudioQueue' = Append(asrAudioQueue, Chunk)
                \/ /\ asrSocket # 0
                   /\ AudioOf(asrSocket)' = Append(AudioOf(asrSocket), Frame("audio", 0, Chunk))]_vars

\* The callbacks of a transport.
SocketEvents == {"open", "message", "close"}

\* C36: a transport that has opened carries exactly one start-control message
\* and that message names the task id of the transport's session; an open,
\* message or close event of a transport other than the current one sends
\* nothing on the current transport and leaves readiness flag, audio queue and
\* last text as they were.
C36_EventsStayInSession ==
    /\ [](\A s \in 1..Len(socks) :
             /\ socks[s].state \in {"open", "closing"}
                   => StartsSent(s) = <<Frame("StartTranscription", s, 0)>>
             /\ Len(StartsSent(s)) <= 1)
    /\ [][(asrOp'.op \in SocketEvents /\ asrOp'.sock # asrSocket)
             => /\ asrSocket # 0 => socks'[asrSocket].sent = socks[asrSocket].sent
                /\ UNCHANGED <<asrReady, asrAudioQueue, asrLastText>>]_vars

\* C37: when a start's token continuation runs directly after a stop request
\* was handled, so that every pending start was accepted before the stop, it
\* leaves no transport and no task id.
C37_StopWinsOverPendingStart ==
    [][(asrOp.op = "asr-stop" /\ \E tok \in {"token", "none", "throw"} : AsrToken(tok))
          => (asrSocket' = 0 /\ asrTaskId' = 0)]_vars

\* C38: every transcript event the core sends with isFinal true and a text
\* carries a text the provider marked final, never the text of a sentence
\* still in progress.
C38_FinalEventsAreFinal ==
    [][\A k \in 1..Len(asrOut') :
          (asrOut'[k].type = "asr-result" /\ asrOut'[k].isFinal /\ asrOut'[k].text # "")
             => asrOut'[k].text = "t"]_vars

\* The names that mark the end of a sentence.
FinalNames == {"SentenceEnd", "TranscriptionCompleted"}

\* C23: a message with non-empty text is reported to the renderer with its
\* text and name, as final exactly when its name is SentenceEnd or
\* TranscriptionCompleted or one of its payload flags is true, and as
\* interim otherwise.
C23_FinalClassification ==
    [][asrOp'.op = "message"
          => \A m \in Msgs :
                (m.result # "" /\ SockMessage(asrOp'.sock, m))
                   => LET final == \/ m.name \in FinalNames
                                   \/ TRUE \in {m.flags.is_final, m.flags.final,
                                                 m.flags.sentence_end}
                      IN asrOut' = <<AsrEv("asr-result", m.result, final, m.name)>>]_vars

\* C23 witness: a message that is final by a payload flag alone was reported.
C23_Witness ==
    /\ asrOp.op = "message"
    /\ asrOut = <<AsrEv("asr-result", "t", TRUE, "TranscriptionResultChanged")>>

\* ================================================== renderer: voice
\* Transcript text is a sequence of characters.
Chars == {"h", "w", " "}

Texts == SeqsUpTo(Chars, MaxFragLen)

RECURSIVE TrimStart(_)
TrimStart(t) == IF t # <<>> /\ Head(t) = " " THEN TrimStart(Tail(t)) ELSE t

RECURSIVE TrimEnd(_)
TrimEnd(t) ==
    IF t # <<>> /\ t[Len(t)] = " " THEN TrimEnd(SubSeq(t, 1, Len(t) - 1)) ELSE t

\* String.prototype.trim
TrimText(t) == TrimEnd(TrimStart(t))

\* String.prototype.startsWith
StartsWith(t, prefix) ==
    Len(prefix) <= Len(t) /\ SubSeq(t, 1, Len(prefix)) = prefix

\* Mutant: a final is always appended.
MergeFinalAppends(prev, clean) == TrimText(prev \o <<" ">> \o clean)

\* prev && clean.startsWith(prev) ? clean : `${prev} ${clean}`.trim()
MergeFinal(prev, clean) ==
    IF prev # <<>> /\ StartsWith(clean, prev) THEN clean
    ELSE TrimText(prev \o <<" ">> \o clean)

\* Mutant: only an empty fragment is skipped.
SkipFinalEmptyOnly(clean, last) == clean = <<>>

\* if (!clean) return prev; if (clean === lastFinalRef.current) return prev
SkipFinal(clean, last) == clean = <<>> \/ clean = last

\* The body of handleAsrResult, the listener of 'asr-result'
AsrResultHandled(data) ==
    /\ fed' = Append(fed, data)
    /\ IF data.isFinal
       THEN LET clean == TrimText(data.text) IN
            /\ voicePreview' = <<>>
            /\ IF SkipFinal(clean, lastFinalRef)
               THEN UNCHANGED <<voiceFinal, voiceText, lastFinalRef>>
               ELSE /\ lastFinalRef' = clean
                    /\ voiceFinal' = MergeFinal(voiceFinal, clean)
                    /\ voiceText' = MergeFinal(voiceFinal, clean)
       ELSE /\ voicePreview' = data.text
            /\ UNCHANGED <<voiceFinal, voiceText, lastFinalRef>>

\* An 'asr-result' event of the message handler reaches handleAsrResult.
HandleAsrResult(data) ==
    /\ Len(fed) < MaxFed
    /\ AsrResultHandled(data)
    /\ OnlyVoice

\* The 'asr-result' event of the close handler reaches handleAsrResult: it
\* carries asrLastText, the text of the session's last result event, as final.
AsrCloseResult ==
    /\ fed # <<>>
    /\ Len(fed) <= MaxFed
    /\ AsrResultHandled([text |-> fed[Len(fed)].text, isFinal |-> TRUE])
    /\ OnlyVoice

\* startVoice: setVoiceText(''), setVoiceFinal(''), setVoicePreview(''),
\* lastFinalRef.current = ''
VoiceReset ==
    /\ fed # <<>>
    /\ voiceFinal' = <<>>
    /\ voiceText' = <<>>
    /\ voicePreview' = <<>>
    /\ lastFinalRef' = <<>>
    /\ fed' = <<>>
    /\ OnlyVoice

VoiceRest ==
    /\ voiceFinal = <<>>
    /\ voiceText = <<>>
    /\ voicePreview = <<>>
    /\ lastFinalRef = <<>>
    /\ fed = <<>>

NextVoice ==
    \/ \E t \in Texts, f \in BOOLEAN : HandleAsrResult([text |-> t, isFinal |-> f])
    \/ AsrCloseResult
    \/ VoiceReset

\* ===================================================== claims: voice
IsPrefix(p, t) == Len(p) <= Len(t) /\ \A k \in 1..Len(p) : p[k] = t[k]

\* The fold of the claim: skip a fragment equal to the last accepted one,
\* replace the accumulated text by a fragment that starts with it, append any
\* other fragment after one space.
RECURSIVE FoldFinals(_, _, _)
FoldFinals(frags, acc, last) ==
    IF frags = <<>> THEN acc
    ELSE LET f == Head(frags) IN
         IF f = last THEN FoldFinals(Tail(frags), acc, last)
         ELSE IF IsPrefix(acc, f) THEN FoldFinals(Tail(frags), f, f)
         ELSE FoldFinals(Tail(frags), acc \o <<" ">> \o f, f)

RECURSIVE Strip(_)
Strip(t) ==
    IF t = <<>> THEN t
    ELSE IF t[1] = " " THEN Strip(SubSeq(t, 2, Len(t)))
    ELSE IF t[Len(t)] = " " THEN Strip(SubSeq(t, 1, Len(t) - 1))
    ELSE t

RECURSIVE FinalTexts(_)
FinalTexts(events) ==
    IF events = <<>> THEN <<>>
    ELSE IF Head(events).isFinal THEN <<Head(events).text>> \o FinalTexts(Tail(events))
    ELSE FinalTexts(Tail(events))

RECURSIVE StrippedNonEmpty(_)
StrippedNonEmpty(frags) ==
    IF frags = <<>> THEN <<>>
    ELSE IF Strip(Head(frags)) = <<>> THEN StrippedNonEmpty(Tail(frags))
    ELSE <<Strip(Head(frags))>> \o StrippedNonEmpty(Tail(frags))

\* C10 as stated: the accumulated transcript is the fold over the final
\* fragments as they were delivered.
C10_FoldOfFinals == voiceFinal = FoldFinals(FinalTexts(fed), <<>>, <<>>)

\* C10 amended: the accumulated transcript is the same fold over the final
\* fragments after each was trimmed and the empty ones were dropped.
C10_FoldOfTrimmedFinals ==
    voiceFinal = FoldFinals(StrippedNonEmpty(FinalTexts(fed)), <<>>, <<>>)

\* C10 witness: "h" then "hw" gave "hw" (prefix replace, not append).
C10_Witness ==
    /\ fed = <<[text |-> <<"h">>, isFinal |-> TRUE], [text |-> <<"h", "w">>, isFinal |-> TRUE]>>
    /\ voiceFinal = <<"h", "w">>

\* C26: when the session's last result event was final, the final event the
\* close handler pushes with the same text changes neither the accumulated
\* transcript nor the text shown.
C26_CloseAddsNothing ==
    [][(AsrCloseResult /\ fed[Len(fed)].isFinal)
          => (voiceFinal' = voiceFinal /\ voiceText' = voiceText)]_vars

\* C26 witness: "h", then "w", then the close event repeating "w": "h w".
C26_Witness ==
    /\ fed = <<[text |-> <<"h">>, isFinal |-> TRUE], [text |-> <<"w">>, isFinal |-> TRUE],
               [text |-> <<"w">>, isFinal |-> TRUE]>>
    /\ voiceFinal = <<"h", " ", "w">>

\* ================================================== window directory
\* A frame or a window's bounds: origin and size.
Rect(x, y, w, h) == [x |-> x, y |-> y, w |-> w, h |-> h]

\* The frames a display can have: side by side or overlapping along x.
DisplayFrames == {Rect(x, 0, w, MaxPos) : x \in 0..MaxPos, w \in 1..MaxPos}

\* kCGWindowBounds of a window; a missing entry reads as 0.
WindowBounds == {Rect(x, y, w, h) : x \in 0..MaxPos, y \in 0..MaxPos,
                                   w \in 0..MaxPos, h \in 0..MaxPos}

\* An entry of the window list: its bounds, and whether it passes the filters
\* on owner name, window number, layer and regular application.
WindowInfos == [bounds : WindowBounds, regular : BOOLEAN]

\* CGPoint(x: bx + bw / 2.0, y: by + bh / 2.0), in half units
Center(b) == [x |-> 2 * b.x + b.w, y |-> 2 * b.y + b.h]

\* CGRect.contains(point): the minimum edges belong to the rectangle, the
\* maximum edges do not.
Contains(frame, point) ==
    /\ 2 * frame.x <= point.x
    /\ point.x < 2 * (frame.x + frame.w)
    /\ 2 * frame.y <= point.y
    /\ point.y < 2 * (frame.y + frame.h)

\* screens.enumerated().first(where: ...): the position of the first display
\* that contains the point, 0 when there is none
FirstMatch(point) ==
    LET hits == {k \in 1..Len(screens) : Contains(screens[k], point)}
    IN IF hits = {} THEN 0 ELSE CHOOSE k \in hits : \A j \in hits : k <= j

\* The record of one window: display 1 with zero bounds unless a display matched.
WindowRecord(b) ==
    LET match == FirstMatch(Center(b))
    IN [x |-> b.x, y |-> b.y, w |-> b.w, h |-> b.h,
        displayIndex |-> IF match = 0 THEN 1 ELSE match,
        displayX |-> IF match = 0 THEN 0 ELSE screens[match].x,
        displayY |-> IF match = 0 THEN 0 ELSE screens[match].y,
        displayW |-> IF match = 0 THEN 0 ELSE screens[match].w,
        displayH |-> IF match = 0 THEN 0 ELSE screens[match].h]

\* One step of windowInfo.compactMap: the next entry is dropped or mapped.
MapWindow ==
    /\ windowInfo # <<>>
    /\ windows' = IF Head(windowInfo).regular
                  THEN Append(windows, WindowRecord(Head(windowInfo).bounds))
                  ELSE windows
    /\ windowInfo' = Tail(windowInfo)
    /\ UNCHANGED screens
    /\ OnlyWin

WinInit ==
    /\ screens \in {<<a>> : a \in DisplayFrames}
                   \cup {<<a, b>> : a \in DisplayFrames, b \in DisplayFrames}
    /\ windowInfo \in {<<i>> : i \in WindowInfos}
    /\ windows = <<>>

NextWin == MapWindow

\* ============================================ claims: window directory
\* C20: every window record carries the index of each display whose frame
\* contains the centre of the window's bounds.
C20_DisplayOfCenter ==
    \A r \in Range(windows) :
       \A k \in 1..Len(screens) :
          Contains(screens[k], Center(Rect(r.x, r.y, r.w, r.h))) => r.displayIndex = k

\* C34: the record of a window whose centre lies in no display carries index 1
\* and the first display's frame.
C34_DefaultIsFirstDisplay ==
    \A r \in Range(windows) :
       (\A k \in 1..Len(screens) : ~Contains(screens[k], Center(Rect(r.x, r.y, r.w, r.h))))
          => /\ r.displayIndex = 1
             /\ Rect(r.displayX, r.displayY, r.displayW, r.displayH) = screens[1]

\* ================================================= rectangle capture
\* payload.display of window-capture and window-capture-temp: the display's
\* index and frame, or nothing.
Display(given, index, x, y, w, h) ==
    [given |-> given, index |-> index, x |-> x, y |-> y, w |-> w, h |-> h]

NoDisplay == Display(FALSE, 0, 0, 0, 0, 0)

\* The displays a payload can name: none, the zero default of the window list,
\* or a display at an origin of its own.
Displays ==
    {NoDisplay} \cup {Display(TRUE, i, x, y, MaxPos, h) :
                         i \in 1..2, x \in 0..1, y \in 0..1, h \in 0..MaxPos}

\* The arguments of screencapture: -D (0 when absent) and -R x,y,w,h.
Args(d, x, y, w, h) == [D |-> d, x |-> x, y |-> y, w |-> w, h |-> h]

\* Mutant: the rectangle is moved to the display but not flipped.
CaptureWithRectArgsUnflipped(rect, display) ==
    IF display.given
    THEN Args(display.index, rect.x - display.x, rect.y - display.y, rect.w, rect.h)
    ELSE Args(0, rect.x, rect.y, rect.w, rect.h)

\* captureWithRect: localX = x - display.x, localY = y - display.y,
\* localTopY = display.h - localY - h, '-D' index, '-R' x,y,w,h
CaptureWithRectArgs(rect, display) ==
    IF display.given
    THEN LET localX == rect.x - display.x
             localY == rect.y - display.y
             localTopY == display.h - localY - rect.h
         IN Args(display.index, localX, localTopY, rect.w, rect.h)
    ELSE Args(0, rect.x, rect.y, rect.w, rect.h)

IdleRectCapture ==
    [rect |-> Rect(0, 0, 0, 0), display |-> NoDisplay, args |-> Args(0, 0, 0, 0, 0), runs |-> 0]

\* captureWithRect runs screencapture for the payload of one request that has
\* a rectangle.
RunCaptureWithRect(rect, display) ==
    /\ rectCapture.runs = 0
    /\ rectCapture' = [rect |-> rect, display |-> display,
                       args |-> CaptureWithRectArgs(rect, display), runs |-> 1]
    /\ OnlyRect

NextRect == \E rect \in WindowBounds, display \in Displays : RunCaptureWithRect(rect, display)

\* ========================================= claims: rectangle capture
\* C24: with a display the capture utility gets x - display.x,
\* display.h - (y - display.y) - h, the rectangle's width and height, and the
\* display's index as target display; without a display it gets the rectangle
\* as it came and no target display.
C24_RectToDisplayLocal ==
    (rectCapture.runs > 0)
       => LET r == rectCapture.rect
              d == rectCapture.display
              a == rectCapture.args
          IN /\ a.w = r.w /\ a.h = r.h
             /\ d.given => /\ a.x = r.x - d.x
                            /\ a.y = d.h - (r.y - d.y) - r.h
                            /\ a.D = d.index
             /\ ~d.given => (a.x = r.x /\ a.y = r.y /\ a.D = 0)

\* C24 witness: a rectangle at (1, 1) of size 1 x 1 on display 2, whose frame
\* starts at (1, 1) and is MaxPos high, goes to 0, MaxPos - 1.
C24_Witness ==
    /\ rectCapture.rect = Rect(1, 1, 1, 1)
    /\ rectCapture.display = Display(TRUE, 2, 1, 1, MaxPos, MaxPos)
    /\ rectCapture.args = Args(2, 0, MaxPos - 1, 1, 1)

\* ======================================================== isolation
\* One window capture, one watchdog cycle and the transcription sessions run
\* side by side, each with its failures.
NextIsolation ==
    \/ \E rect \in BOOLEAN : StartWindowCapture(1, "window-capture", rect)
    \/ \E ok \in BOOLEAN : CaptureIdDone(1, ok)
    \/ \E ok \in BOOLEAN : CaptureRectDone(1, ok)
    \/ LoadCards(1)
    \/ SaveCards(1)
    \/ PollStart(1)
    \/ \E listed \in {"", "main"} : PollResolved(1, listed)
    \/ PollCaptureFailed(1)
    \/ PollCaptured(1, <<"ERROR: x">>)
    \/ AsrStart
    \/ \E tok \in {"token", "none", "throw"} : AsrToken(tok)
    \/ SockOpen(1)
    \/ SockError(1)
    \/ SockClose(1)

\* ================================================ claims: isolation
\* The steps in which a subsystem fails.
CaptureFails == \E i \in Slots : req[i].pc # "failed" /\ req'[i].pc = "failed"

PollFails ==
    \E c \in CycleIds : PollCaptureFailed(c) \/ (tmuxSession = "" /\ PollResolved(c, ""))

TranscriptionFails ==
    \/ \E s \in 1..Len(socks) : SockError(s)
    \/ AsrToken("none")
    \/ AsrToken("throw")

\* C22: a step in which a capture fails leaves the watchdog's and the
\* transcription's state as it was; a step in which a poll fails leaves the
\* Card List's and the transcription's state as it was; a step in which the
\* transcription fails leaves the Card List's and the watchdog's state as it was.
C22_FailuresIsolated ==
    [][/\ CaptureFails => UNCHANGED <<tmuxVars, asrVars>>
       /\ PollFails => UNCHANGED <<cardVars, asrVars>>
       /\ TranscriptionFails => UNCHANGED <<cardVars, tmuxVars>>]_vars

\* C22 witness: the capture failed, the poll failed and the transport reported
\* an error in one behaviour, with cards persisted and a session live.
C22_Witness ==
    /\ req[1].pc = "failed"
    /\ cycles # <<>> /\ cycles[Len(cycles)].status = "error"
    /\ asrOp.op = "error" /\ asrSocket # 0
    /\ cardsJson # <<>>

\* ============================================================ specs
\* Each specification runs one subsystem from its initial states and holds
\* the others at rest.
CardsRest ==
    /\ cardsJson = <<>>
    /\ uiCards = <<>>
    /\ req = [i \in Slots |-> IdleReq]
    /\ replies = <<>>
    /\ uuids = 0

TmuxRest ==
    /\ tmuxSession = ""
    /\ tmuxTarget = ConfigTarget("")
    /\ lastTmuxAlert = ""
    /\ poll = [c \in CycleIds |-> IdlePoll]
    /\ cycles = <<>>
    /\ tmuxOut = <<>>

AsrRest ==
    /\ asrSocket = 0
    /\ asrTaskId = 0
    /\ asrLastText = ""
    /\ asrReady = FALSE
    /\ asrAudioQueue = <<>>
    /\ socks = <<>>
    /\ asrEnv = [appKey |-> TRUE, pending |-> 0, starts |-> 0, frames |-> 0, msgs |-> 0]
    /\ asrOp = [op |-> "init", sock |-> 0, task |-> 0, threw |-> FALSE]
    /\ asrOut = <<>>

LogsRest == logs = IdleLogs

RectRest == rectCapture = IdleRectCapture

EnvRest == tmuxUp = FALSE

AlertRest == alertUi = IdleAlertUi

WinRest ==
    /\ screens = <<Rect(0, 0, MaxPos, MaxPos)>>
    /\ windowInfo = <<>>
    /\ windows = <<>>

InitCards == CardsInit /\ TmuxRest /\ AsrRest /\ VoiceRest /\ WinRest /\ LogsRest /\ RectRest /\ EnvRest /\ AlertRest

InitTmux == TmuxInit /\ CardsRest /\ AsrRest /\ VoiceRest /\ WinRest /\ LogsRest /\ RectRest /\ EnvRest /\ AlertRest

InitAsr == AsrInit /\ CardsRest /\ TmuxRest /\ VoiceRest /\ WinRest /\ LogsRest /\ RectRest /\ EnvRest /\ AlertRest

InitVoice == VoiceRest /\ CardsRest /\ TmuxRest /\ AsrRest /\ WinRest /\ LogsRest /\ RectRest /\ EnvRest /\ AlertRest

InitWin == WinInit /\ CardsRest /\ TmuxRest /\ AsrRest /\ VoiceRest /\ LogsRest /\ RectRest /\ EnvRest /\ AlertRest

InitLogs == TmuxInit /\ LogsRest /\ CardsRest /\ AsrRest /\ VoiceRest /\ WinRest /\ RectRest /\ EnvRest /\ AlertRest

InitRect == RectRest /\ CardsRest /\ TmuxRest /\ AsrRest /\ VoiceRest /\ WinRest /\ LogsRest /\ EnvRest /\ AlertRest

InitIsolation == CardsInit /\ TmuxInit /\ AsrInit /\ VoiceRest /\ WinRest /\ LogsRest /\ RectRest /\ EnvRest /\ AlertRest

SpecCards == InitCards /\ [][NextCardsSys]_vars

SpecTmux == InitTmux /\ [][NextTmux]_vars

SpecTarget == InitTmux /\ [][NextTarget]_vars

SpecLogs == InitLogs /\ [][NextLogs]_vars

SpecAsr == InitAsr /\ [][NextAsr]_vars

SpecVoice == InitVoice /\ [][NextVoice]_vars

SpecWin == InitWin /\ [][NextWin]_vars

SpecRect == InitRect /\ [][NextRect]_vars

SpecIsolation == InitIsolation /\ [][NextIsolation]_vars

SpecSentences == InitAsr /\ [][NextSentences]_vars

SpecAlert == InitTmux /\ [][NextAlert]_vars

SpecFair == InitTmux /\ [][NextFair]_vars /\ Fairness

====
